---- MODULE Spec2Model ----
(***************************************************************************)
(* Account-selection strategies of the proxy's Account Manager             *)
(* (Aggressive, QuotaFirst, Conservative, SilentFailover, OnDemand), the   *)
(* account pool they are handed, and the request dispatcher that calls     *)
(* selectAccount and reports each outcome.                                 *)
(*                                                                         *)
(* Every strategy method is synchronous JavaScript: one call is one atomic *)
(* step.  Overlapping requests appear as interleavings of whole calls.     *)
(***************************************************************************)
EXTENDS Integers, Sequences, FiniteSets, TLC

(***************************************************************************)
(* Bounds of the model.                                                    *)
(***************************************************************************)
\* A per-account issue / failure counter is counted up to this value.
MaxIssues == 2
\* Requests that were handed an account and have not reported an outcome.
MaxInflight == 2
\* OnDemand release calls for an account none of whose selections is outstanding.
MaxUnmatched == 1

\* The account objects that exist (keyed by email); the pool holds some of them.
Emails == {"a@x", "b@x", "c@x", "d@x"}
\* The stateful strategies are run on pools of the first two accounts; QuotaFirst,
\* which keeps no state, on pools of all three.
PoolEmails(s) == IF s = "quota-first" THEN {"a@x", "b@x", "c@x"} ELSE {"a@x", "b@x"}
\* JavaScript null (no account).
Null == "null"
\* The model id of the requests.
ModelIds == {"m1"}
\* subscription.tier values; "none" is an account without a subscription object.
Tiers == {"ultra", "pro", "free", "other", "none"}
\* quota.models[m].remainingFraction, in percent.  The fractions used (0, 0.25,
\* 0.5) are exact in binary floating point, and so are their products and means.
Fractions == {0, 25, 50}
\* quota.models has no such key
Absent == -1
\* quota.models has the key, with a remainingFraction that is not a number
NotANumber == -2

VARIABLES
    strategy,               \* the strategy instance createStrategy built
    accounts,               \* the pool: the array of accounts, by email, in order
    acct,                   \* the account objects: enabled, isInvalid, quota, tier
    cooling,                \* health/rate tracker: <<email, modelId>> cooling down
    currentIndex,           \* #currentIndex (Aggressive, SilentFailover, OnDemand)
    accountCount,           \* #accountCount (Aggressive, SilentFailover)
    issueTracker,           \* Aggressive #issueTracker: Map email -> count
    switchThreshold,        \* Aggressive #switchThreshold
    failureCounts,          \* SilentFailover #failureCounts: Map email -> count
    maxFailuresBeforeSwitch,\* SilentFailover / Conservative #maxFailuresBeforeSwitch
    activeAccounts,         \* OnDemand #activeAccounts: Map email -> count
    activeAccountEmail,     \* Conservative #activeAccountEmail
    failureCount,           \* Conservative #failureCount
    pending,                \* dispatcher: selections of each account not yet reported
    last,                   \* the last strategy call: its arguments, result and effects
    lastSel,                \* the account most recently returned by selectAccount
    streak,                 \* history: a run of n onFailure(account) calls
    served,                 \* history: the accounts OnDemand selectAccount has returned
    unmatched,              \* history: per email, the OnDemand release calls made for it
                            \* while none of its selections was outstanding
                            \* (below zero: its selections abandoned without a report)
    component               \* the other programs of the repository: the state of the
                            \* settings page or of the dev-server runner

stratVars == <<currentIndex, accountCount, issueTracker, switchThreshold,
               failureCounts, maxFailuresBeforeSwitch, activeAccounts,
               activeAccountEmail, failureCount>>
vars == <<strategy, accounts, acct, cooling, stratVars, pending, last, lastSel, streak, served,
          unmatched, component>>

(***************************************************************************)
(* JavaScript helpers.                                                     *)
(***************************************************************************)
\* new Map()
EmptyMap == << >>
\* map.get(k) || 0
GetOrZero(map, k) == IF k \in DOMAIN map THEN map[k] ELSE 0
\* map.set(k, v)
MapSet(map, k, v) == [x \in (DOMAIN map) \cup {k} |-> IF x = k THEN v ELSE map[x]]
\* map.delete(k)
MapDelete(map, k) == [x \in (DOMAIN map) \ {k} |-> map[x]]
\* Math.max(a, b)
MathMax(a, b) == IF a >= b THEN a ELSE b
\* config.x || dflt  (undefined and 0 are falsy)
OrDefault(v, dflt) == IF v = 0 THEN dflt ELSE v

Range(s) == {s[i] : i \in 1..Len(s)}
\* accounts[idx] of the 0-based JavaScript array
At(accts, idx) == accts[idx + 1]
\* Array.prototype.splice(i, 1) on the pool (0-based i)
RemoveAt(accts, i) == [k \in 1..(Len(accts) - 1) |-> IF k <= i THEN accts[k] ELSE accts[k + 1]]

InflightTotal == LET RECURSIVE Sum(_)
                     Sum(S) == IF S = {} THEN 0
                               ELSE LET e == CHOOSE x \in S : TRUE
                                    IN pending[e] + Sum(S \ {e})
                 IN Sum(Emails)

(***************************************************************************)
(* BaseStrategy helpers.                                                   *)
(***************************************************************************)
\* isAccountUsable(account, modelId)
IsAccountUsable(e, m) ==
    /\ ~acct[e].isInvalid
    /\ acct[e].enabled # FALSE
    /\ <<e, m>> \notin cooling

\* getUsableAccounts(accounts, modelId): the usable {account, index}, in pool order
GetUsableAccounts(accts, m) ==
    LET RECURSIVE Filter(_)
        Filter(i) == IF i >= Len(accts) THEN << >>
                     ELSE IF IsAccountUsable(At(accts, i), m)
                          THEN <<[account |-> At(accts, i), index |-> i]>> \o Filter(i + 1)
                          ELSE Filter(i + 1)
    IN Filter(0)

(***************************************************************************)
(* The record of a call: what it was given, what it returned, what it did. *)
(***************************************************************************)
NoStreak == [account |-> Null, n |-> 0]

\* no call of the strategy yet (init), or a step of the store (external)
NoCall(op) ==
    [op |-> op, arg |-> Null, account |-> Null, index |-> 0, waitMs |-> 0,
     threw |-> FALSE, saves |-> 0, writes |-> {}, matched |-> FALSE,
     n |-> 0, start |-> 0, streak |-> NoStreak, result |-> Null, clears |-> 0]

Call(op, arg) == [NoCall(op) EXCEPT !.arg = arg, !.n = Len(accounts)]

\* a result that carries the position logged (idx + 1) as its index
SelectedPosition(e, idx, writes, start) ==
    [Call("selectAccount", Null) EXCEPT !.account = e, !.index = idx + 1, !.saves = 1,
                                        !.writes = writes, !.start = start,
                                        !.streak = streak]

\* selectAccount returned {account: e, index: idx, waitMs: 0} after one onSave
Selected(e, idx, writes, start) ==
    [Call("selectAccount", Null) EXCEPT !.account = e, !.index = idx, !.saves = 1,
                                        !.writes = writes, !.start = start,
                                        !.streak = streak]

\* a null result that calls onSave all the same
NotSelectedSaved(idx, start) ==
    [Call("selectAccount", Null) EXCEPT !.index = idx, !.start = start, !.streak = streak,
                                        !.saves = 1]

\* selectAccount returned {account: null, index: idx, waitMs: 0}
NotSelected(idx, start) ==
    [Call("selectAccount", Null) EXCEPT !.index = idx, !.start = start, !.streak = streak]

\* selectAccount never returned: the recursion has no end (RangeError)
Threw(start) ==
    [Call("selectAccount", Null) EXCEPT !.threw = TRUE, !.start = start, !.streak = streak]

\* The dispatcher sends the request of a selection and will report its outcome.
Send(e) ==
    /\ e # Null => InflightTotal < MaxInflight
    /\ pending' = IF e = Null THEN pending ELSE [pending EXCEPT ![e] = @ + 1]
    /\ lastSel' = IF e = Null THEN lastSel ELSE e

\* ... and a selection ends a run of failures at the cursor
Dispatch(e) ==
    /\ Send(e)
    /\ streak' = NoStreak

\* The dispatcher reports the outcome of one outstanding selection of e.
Report(e) ==
    /\ pending[e] > 0
    /\ pending' = [pending EXCEPT ![e] = @ - 1]
    /\ lastSel' = lastSel


(***************************************************************************)
(* Array.prototype.sort with a comparator (b.score - a.score): stable, so  *)
(* elements that compare equal keep their order.                           *)
(***************************************************************************)
\* x put behind every element of the sorted seq whose score is not lower
\* an insertion that puts x ahead of the elements of equal score: the order of
\* a sort that is not stable
InsertDescUnstable(sorted, x) ==
    LET ahead == {i \in 1..Len(sorted) : sorted[i].score > x.score}
        k == Cardinality(ahead)
    IN SubSeq(sorted, 1, k) \o <<x>> \o SubSeq(sorted, k + 1, Len(sorted))

InsertDesc(sorted, x) ==
    LET ahead == {i \in 1..Len(sorted) : sorted[i].score >= x.score}
        k == Cardinality(ahead)
    IN SubSeq(sorted, 1, k) \o <<x>> \o SubSeq(sorted, k + 1, Len(sorted))

\* the first i elements of seq, sorted by descending score
RECURSIVE SortDesc(_, _)
SortDesc(seq, i) ==
    IF i = 0 THEN << >> ELSE InsertDesc(SortDesc(seq, i - 1), seq[i])

(***************************************************************************)
(* AggressiveStrategy                                                      *)
(***************************************************************************)
\* The while loop of selectAccount: the first idx from the cursor whose account
\* is usable with fewer than switchThreshold issues, or -1.
\* the loop without its test of the issue count
RECURSIVE AggressiveScanAnyIssues(_, _, _, _, _, _)
AggressiveScanAnyIssues(accts, cur, attempts, issues, thr, m) ==
    IF attempts >= Len(accts) THEN -1
    ELSE LET idx == (cur + attempts) % Len(accts)
         IN IF IsAccountUsable(At(accts, idx), m) THEN idx
            ELSE AggressiveScanAnyIssues(accts, cur, attempts + 1, issues, thr, m)

RECURSIVE AggressiveScan(_, _, _, _, _, _)
AggressiveScan(accts, cur, attempts, issues, thr, m) ==
    IF attempts >= Len(accts) THEN -1
    ELSE LET idx == (cur + attempts) % Len(accts)
             account == At(accts, idx)
         IN IF IsAccountUsable(account, m) /\ GetOrZero(issues, account) < thr
            THEN idx
            ELSE AggressiveScan(accts, cur, attempts + 1, issues, thr, m)

\* #recordIssue(account)
recordIssue(issues, e) == MapSet(issues, e, GetOrZero(issues, e) + 1)

\* #rotateNext()
rotateNext(cur, count) == (cur + 1) % MathMax(1, count)

\* the loop, the reset and the recursive call of selectAccount on a pool that
\* is not empty
\* a retry that keeps the issue counts
ClearedIssuesKept == issueTracker

\* this.#issueTracker.clear()
ClearedIssues == EmptyMap

AggressiveSelectFrom(m) ==
    LET cur == IF currentIndex >= Len(accounts) THEN 0 ELSE currentIndex
        first == AggressiveScan(accounts, cur, 0, issueTracker, switchThreshold, m)
        \* no account passed: #issueTracker.clear() and the recursive call
        retry == AggressiveScan(accounts, cur, 0, ClearedIssues, switchThreshold, m)
        idx == IF first # -1 THEN first ELSE retry
    IN /\ accountCount' = Len(accounts)
       /\ issueTracker' = IF first # -1 THEN issueTracker ELSE ClearedIssues
       /\ IF idx # -1
          THEN /\ currentIndex' = idx
               /\ last' = [Selected(At(accounts, idx), idx,
                                    {<<At(accounts, idx), "lastUsed">>}, cur)
                             EXCEPT !.clears = IF first # -1 THEN 0 ELSE 1]
               /\ Dispatch(At(accounts, idx))
          ELSE \* the cleared tracker changes nothing: the recursion never ends
               /\ currentIndex' = cur
               /\ last' = Threw(cur)
               /\ Dispatch(Null)

\* selectAccount without its accounts.length === 0 return: the loop runs zero
\* times on an empty pool, and the reset-and-recurse never ends
AggressiveSelectAccountUnguarded(m) ==
    /\ strategy = "aggressive"
    /\ UNCHANGED <<served, unmatched, strategy, component, accounts, acct, cooling, switchThreshold,
                   failureCounts,
                   maxFailuresBeforeSwitch, activeAccounts, activeAccountEmail, failureCount>>
    /\ IF Len(accounts) = 0
       THEN /\ accountCount' = 0
            /\ currentIndex' = 0
            /\ issueTracker' = EmptyMap
            /\ last' = Threw(0)
            /\ Dispatch(Null)
       ELSE AggressiveSelectFrom(m)

AggressiveSelectAccount(m) ==
    /\ strategy = "aggressive"
    /\ UNCHANGED <<served, unmatched, strategy, component, accounts, acct, cooling, switchThreshold,
                   failureCounts,
                   maxFailuresBeforeSwitch, activeAccounts, activeAccountEmail, failureCount>>
    /\ IF Len(accounts) = 0
       THEN /\ last' = NotSelected(0, 0)
            /\ Dispatch(Null)
            /\ UNCHANGED <<currentIndex, accountCount, issueTracker>>
       ELSE AggressiveSelectFrom(m)

AggressiveOnSuccess(e) ==
    /\ strategy = "aggressive"
    /\ Report(e)
    /\ issueTracker' = MapDelete(issueTracker, e)
    /\ last' = [Call("onSuccess", e) EXCEPT !.matched = TRUE]
    /\ streak' = NoStreak
    /\ UNCHANGED <<served, unmatched, strategy, component, accounts, acct, cooling,
                   currentIndex, accountCount,
                   switchThreshold, failureCounts, maxFailuresBeforeSwitch,
                   activeAccounts, activeAccountEmail, failureCount>>

\* onRateLimit and onFailure have the same body
AggressiveOnIssue(op, e) ==
    /\ strategy = "aggressive"
    /\ Report(e)
    /\ GetOrZero(issueTracker, e) < MaxIssues
    /\ issueTracker' = recordIssue(issueTracker, e)
    /\ currentIndex' = rotateNext(currentIndex, accountCount)
    /\ last' = [Call(op, e) EXCEPT !.matched = TRUE]
    /\ streak' = IF op = "onFailure" /\ e = lastSel
                 THEN [account |-> e, n |-> 1] ELSE NoStreak
    /\ UNCHANGED <<served, unmatched, strategy, component, accounts, acct, cooling, accountCount,
                   switchThreshold, failureCounts, maxFailuresBeforeSwitch,
                   activeAccounts, activeAccountEmail, failureCount>>

AggressiveOnRateLimit(e) == AggressiveOnIssue("onRateLimit", e)
AggressiveOnFailure(e) == AggressiveOnIssue("onFailure", e)

(***************************************************************************)
(* QuotaFirstStrategy.  Scores are held in half percents, which makes the  *)
(* mean over the (at most two) models of an account exact.                 *)
(***************************************************************************)
\* allQuotas.reduce((sum, q) => sum + (q.remainingFraction || 0), 0)
SumRemaining(q) ==
    LET RECURSIVE Sum(_)
        Sum(K) == IF K = {} THEN 0
                  ELSE LET k == CHOOSE x \in K : TRUE
                       IN (IF q[k] = NotANumber THEN 0 ELSE q[k]) + Sum(K \ {k})
    IN Sum({k \in DOMAIN q : q[k] # Absent})

\* the quotaScore of the map callback, before the tier fallback
QuotaFirstQuotaScore(e, m) ==
    LET q == acct[e].quota
        allQuotas == {k \in DOMAIN q : q[k] # Absent}
    IN IF q[m] # Absent /\ q[m] # NotANumber
       THEN 2 * q[m]
       ELSE IF allQuotas # {}
            THEN (2 * SumRemaining(q)) \div Cardinality(allQuotas)
            ELSE 0

\* tierScores[account.subscription.tier] || 5
QuotaFirstTierScore(tier) ==
    CASE tier = "ultra" -> 2 * 30
      [] tier = "pro"   -> 2 * 20
      [] tier = "free"  -> 2 * 10
      [] OTHER          -> 2 * 5

\* the quotaScore the map callback returns
QuotaFirstScore(e, m) ==
    LET quotaScore == QuotaFirstQuotaScore(e, m)
    IN IF quotaScore = 0 /\ acct[e].tier # "none"
       THEN QuotaFirstTierScore(acct[e].tier)
       ELSE quotaScore

\* scored.sort(...)[0]
QuotaFirstBest(accts, m) ==
    LET usableAccounts == GetUsableAccounts(accts, m)
        scored == [i \in 1..Len(usableAccounts) |->
                     [account |-> usableAccounts[i].account,
                      index |-> usableAccounts[i].index,
                      score |-> QuotaFirstScore(usableAccounts[i].account, m)]]
    IN IF Len(usableAccounts) = 0 THEN [account |-> Null, index |-> 0, score |-> 0]
       ELSE SortDesc(scored, Len(scored))[1]

QuotaFirstSelectAccount(m) ==
    /\ strategy = "quota-first"
    /\ UNCHANGED <<served, unmatched, strategy, component, accounts, acct, cooling, stratVars>>
    /\ IF Len(accounts) = 0
       THEN /\ last' = NotSelected(0, 0)
            /\ Dispatch(Null)
       ELSE LET best == QuotaFirstBest(accounts, m)
            IN IF best.account = Null
               THEN /\ last' = NotSelected(0, 0)
                    /\ Dispatch(Null)
               ELSE /\ last' = Selected(best.account, best.index,
                                        {<<best.account, "lastUsed">>}, 0)
                    /\ Dispatch(best.account)

\* onSuccess, onRateLimit and onFailure have empty bodies
QuotaFirstOutcome(op, e) ==
    /\ strategy = "quota-first"
    /\ Report(e)
    /\ last' = [Call(op, e) EXCEPT !.matched = TRUE]
    /\ streak' = NoStreak
    /\ UNCHANGED <<served, unmatched, strategy, component, accounts, acct, cooling, stratVars>>

QuotaFirstOnSuccess(e) == QuotaFirstOutcome("onSuccess", e)
QuotaFirstOnRateLimit(e) == QuotaFirstOutcome("onRateLimit", e)
QuotaFirstOnFailure(e) == QuotaFirstOutcome("onFailure", e)

(***************************************************************************)
(* ConservativeStrategy.  Scores are held in percent.  The fields          *)
(* #accounts and #pendingSave are written by selectAccount and never read. *)
(***************************************************************************)
\* #getQuotaScore(account, modelId)
getQuotaScore(e, m) ==
    LET q == acct[e].quota
        tier == acct[e].tier
    IN IF q[m] # Absent
       THEN IF q[m] = NotANumber THEN 0 ELSE q[m]
       ELSE CASE tier = "ultra" -> 100
              [] tier = "pro"   -> 70
              [] tier = "free"  -> 30
              [] OTHER          -> 10

\* the candidates of #findBestAccount: every account that is not invalid
ConservativeCandidates(accts) ==
    LET RECURSIVE Filter(_)
        Filter(i) == IF i >= Len(accts) THEN << >>
                     ELSE IF ~acct[At(accts, i)].isInvalid
                          THEN <<[account |-> At(accts, i), index |-> i]>> \o Filter(i + 1)
                          ELSE Filter(i + 1)
    IN Filter(0)

\* #findBestAccount(accounts, modelId)
findBestAccount(accts, m) ==
    LET candidates == ConservativeCandidates(accts)
        scored == [i \in 1..Len(candidates) |->
                     [account |-> candidates[i].account,
                      index |-> candidates[i].index,
                      score |-> getQuotaScore(candidates[i].account, m)]]
    IN IF Len(candidates) = 0 THEN [account |-> Null, index |-> 0, score |-> 0]
       ELSE SortDesc(scored, Len(scored))[1]

\* accounts.findIndex(a => a.email === email)
FindIndex(accts, email) ==
    IF email \in Range(accts)
    THEN (CHOOSE i \in 1..Len(accts) : accts[i] = email) - 1
    ELSE -1

\* the accounts #activateAccount disables: the others that are not disabled yet
\* #activateAccount without its loop over allAccounts
ActivateDisablesNone(e, allAccounts) == {}

ActivateDisables(e, allAccounts) ==
    {x \in Range(allAccounts) : x # e /\ acct[x].enabled # FALSE}

\* a selectAccount that never takes the reuse path
ReusesActiveNever(activeIdx, m) == FALSE

\* the active account is in the pool and this.isAccountUsable(activeAccount, modelId)
ReusesActive(activeIdx, m) ==
    activeIdx # -1 /\ IsAccountUsable(At(accounts, activeIdx), m)

ConservativeSelectAccount(m) ==
    /\ strategy = "conservative"
    /\ UNCHANGED <<served, unmatched, strategy, component, accounts, cooling, currentIndex,
                   accountCount,
                   issueTracker,
                   switchThreshold, failureCounts, maxFailuresBeforeSwitch, activeAccounts>>
    /\ IF Len(accounts) = 0
       THEN /\ last' = NotSelected(0, 0)
            /\ Send(Null)
            /\ UNCHANGED <<acct, activeAccountEmail, failureCount, streak>>
       ELSE LET activeIdx == IF activeAccountEmail # Null
                             THEN FindIndex(accounts, activeAccountEmail) ELSE -1
                bestAccount == findBestAccount(accounts, m)
            IN IF ReusesActive(activeIdx, m)
               THEN /\ last' = Selected(activeAccountEmail, activeIdx,
                                        {<<activeAccountEmail, "lastUsed">>}, 0)
                    /\ Send(activeAccountEmail)
                    /\ UNCHANGED <<acct, activeAccountEmail, failureCount, streak>>
               ELSE IF bestAccount.account # Null
                    THEN \* #activateAccount(bestAccount.account, accounts, onSave)
                         LET e == bestAccount.account
                             off == ActivateDisables(e, accounts)
                         IN /\ acct' = [x \in Emails |->
                                          IF x \in off THEN [acct[x] EXCEPT !.enabled = FALSE]
                                          ELSE IF x = e THEN [acct[x] EXCEPT !.enabled = TRUE]
                                          ELSE acct[x]]
                            /\ activeAccountEmail' = e
                            /\ failureCount' = 0
                            /\ last' = Selected(e, bestAccount.index,
                                                {<<x, "enabled">> : x \in off \cup {e}}
                                                    \cup {<<e, "lastUsed">>}, 0)
                            /\ Send(e)
                            /\ streak' = [account |-> e, n |-> 0]
                    ELSE /\ last' = NotSelected(0, 0)
                         /\ Send(Null)
                         /\ UNCHANGED <<acct, activeAccountEmail, failureCount, streak>>

\* an onSuccess that deactivates the account as the other outcome calls do
ConservativeOnSuccessDeactivates(e) ==
    /\ strategy = "conservative"
    /\ Report(e)
    /\ acct' = [acct EXCEPT ![e].enabled = FALSE]
    /\ activeAccountEmail' = Null
    /\ failureCount' = 0
    /\ last' = [Call("onSuccess", e) EXCEPT !.matched = TRUE, !.saves = 1,
                                            !.writes = {<<e, "enabled">>}]
    /\ streak' = [streak EXCEPT !.n = 0]
    /\ UNCHANGED <<served, unmatched, strategy, component, accounts, cooling, currentIndex,
                   accountCount, issueTracker, switchThreshold, failureCounts,
                   maxFailuresBeforeSwitch, activeAccounts>>

ConservativeOnSuccess(e) ==
    /\ strategy = "conservative"
    /\ Report(e)
    /\ failureCount' = 0
    /\ last' = [Call("onSuccess", e) EXCEPT !.matched = TRUE]
    /\ streak' = [streak EXCEPT !.n = 0]
    /\ UNCHANGED <<served, unmatched, strategy, component, accounts, acct, cooling,
                   currentIndex, accountCount,
                   issueTracker, switchThreshold, failureCounts, maxFailuresBeforeSwitch,
                   activeAccounts, activeAccountEmail>>

\* #deactivateCurrent without its onSave call
deactivateCurrentUnsaved(op, e) ==
    /\ acct' = [acct EXCEPT ![e].enabled = FALSE]
    /\ activeAccountEmail' = Null
    /\ failureCount' = 0
    /\ last' = [Call(op, e) EXCEPT !.matched = TRUE, !.writes = {<<e, "enabled">>}]

\* #deactivateCurrent without its write of account.enabled
deactivateCurrentKeepsEnabled(op, e) ==
    /\ acct' = acct
    /\ activeAccountEmail' = Null
    /\ failureCount' = 0
    /\ last' = [Call(op, e) EXCEPT !.matched = TRUE, !.saves = 1]

\* #deactivateCurrent(account, onSave), as part of the outcome call op
deactivateCurrent(op, e) ==
    /\ acct' = [acct EXCEPT ![e].enabled = FALSE]
    /\ activeAccountEmail' = Null
    /\ failureCount' = 0
    /\ last' = [Call(op, e) EXCEPT !.matched = TRUE, !.saves = 1,
                                   !.writes = {<<e, "enabled">>}]

ConservativeOnRateLimit(e) ==
    /\ strategy = "conservative"
    /\ Report(e)
    /\ IF e = activeAccountEmail
       THEN deactivateCurrent("onRateLimit", e)
       ELSE /\ last' = [Call("onRateLimit", e) EXCEPT !.matched = TRUE]
            /\ UNCHANGED <<acct, activeAccountEmail, failureCount>>
    /\ streak' = streak
    /\ UNCHANGED <<served, unmatched, strategy, component, accounts, cooling, currentIndex,
                   accountCount,
                   issueTracker, switchThreshold, failureCounts, maxFailuresBeforeSwitch,
                   activeAccounts>>

\* a threshold test that lets one more failure pass
ReachesMaxLate(n) == n > maxFailuresBeforeSwitch

\* this.#failureCount >= this.#maxFailuresBeforeSwitch
ReachesMax(n) == n >= maxFailuresBeforeSwitch

ConservativeOnFailure(e) ==
    /\ strategy = "conservative"
    /\ Report(e)
    /\ IF e = activeAccountEmail
       THEN IF ReachesMax(failureCount + 1)
            THEN deactivateCurrent("onFailure", e)
            ELSE /\ failureCount' = failureCount + 1
                 /\ last' = [Call("onFailure", e) EXCEPT !.matched = TRUE]
                 /\ UNCHANGED <<acct, activeAccountEmail>>
       ELSE /\ last' = [Call("onFailure", e) EXCEPT !.matched = TRUE]
            /\ UNCHANGED <<acct, activeAccountEmail, failureCount>>
    /\ streak' = IF e = activeAccountEmail THEN [streak EXCEPT !.n = @ + 1] ELSE streak
    /\ UNCHANGED <<served, unmatched, strategy, component, accounts, cooling, currentIndex,
                   accountCount,
                   issueTracker, switchThreshold, failureCounts, maxFailuresBeforeSwitch,
                   activeAccounts>>

(***************************************************************************)
(* SilentFailoverStrategy                                                  *)
(***************************************************************************)
\* The while loop of selectAccount: the cursor after `attempts` steps, on the
\* first usable account, or -1 when the loop ran through the pool.
\* a loop that steps off the account under the cursor before it tests one
RECURSIVE SilentFailoverScanNext(_, _, _, _)
SilentFailoverScanNext(accts, cur, attempts, m) ==
    IF attempts >= Len(accts) THEN -1
    ELSE LET idx == (cur + 1) % Len(accts)
         IN IF IsAccountUsable(At(accts, idx), m) THEN idx
            ELSE SilentFailoverScanNext(accts, idx, attempts + 1, m)

RECURSIVE SilentFailoverScan(_, _, _, _)
SilentFailoverScan(accts, cur, attempts, m) ==
    IF attempts >= Len(accts) THEN -1
    ELSE IF IsAccountUsable(At(accts, cur), m) THEN cur
         ELSE SilentFailoverScan(accts, (cur + 1) % Len(accts), attempts + 1, m)

\* a rotation modulo the length of the pool as it is now
switchToNextInPool(cur, count) == (cur + 1) % MathMax(1, Len(accounts))

\* #switchToNext(account)
switchToNext(cur, count) == (cur + 1) % MathMax(1, count)

\* the failure count at which onFailure switches
SwitchesAt(count, max) == count >= max

SilentFailoverSelectAccount(m) ==
    /\ strategy = "silent-failover"
    /\ UNCHANGED <<served, unmatched, strategy, component, accounts, acct, cooling, issueTracker,
                   switchThreshold,
                   failureCounts, maxFailuresBeforeSwitch, activeAccounts,
                   activeAccountEmail, failureCount>>
    /\ IF Len(accounts) = 0
       THEN /\ last' = NotSelected(0, 0)
            /\ Dispatch(Null)
            /\ UNCHANGED <<currentIndex, accountCount>>
       ELSE LET startIndex == IF currentIndex >= Len(accounts) THEN 0 ELSE currentIndex
                idx == SilentFailoverScan(accounts, startIndex, 0, m)
            IN /\ accountCount' = Len(accounts)
               /\ IF idx # -1
                  THEN /\ currentIndex' = idx
                       /\ last' = Selected(At(accounts, idx), idx,
                                           {<<At(accounts, idx), "lastUsed">>}, startIndex)
                       /\ Dispatch(At(accounts, idx))
                  ELSE /\ currentIndex' = startIndex
                       /\ last' = NotSelected(startIndex, startIndex)
                       /\ Dispatch(Null)

SilentFailoverOnSuccess(e) ==
    /\ strategy = "silent-failover"
    /\ Report(e)
    /\ failureCounts' = MapDelete(failureCounts, e)
    /\ last' = [Call("onSuccess", e) EXCEPT !.matched = TRUE]
    /\ streak' = NoStreak
    /\ UNCHANGED <<served, unmatched, strategy, component, accounts, acct, cooling,
                   currentIndex, accountCount,
                   issueTracker, switchThreshold, maxFailuresBeforeSwitch,
                   activeAccounts, activeAccountEmail, failureCount>>

SilentFailoverOnRateLimit(e) ==
    /\ strategy = "silent-failover"
    /\ Report(e)
    /\ currentIndex' = switchToNext(currentIndex, accountCount)
    /\ last' = [Call("onRateLimit", e) EXCEPT !.matched = TRUE]
    /\ streak' = NoStreak
    /\ UNCHANGED <<served, unmatched, strategy, component, accounts, acct, cooling,
                   accountCount, issueTracker,
                   switchThreshold, failureCounts, maxFailuresBeforeSwitch,
                   activeAccounts, activeAccountEmail, failureCount>>

\* History: onFailure(e) starts a streak when the cursor is on e and e has no
\* recorded failure, and extends the streak of e up to the switching call.
StreakAfterFailure(e) ==
    IF streak.account = e /\ streak.n < maxFailuresBeforeSwitch
    THEN [account |-> e, n |-> streak.n + 1]
    ELSE IF /\ currentIndex < Len(accounts)
            /\ At(accounts, currentIndex) = e
            /\ e \notin DOMAIN failureCounts
         THEN [account |-> e, n |-> 1]
         ELSE NoStreak

SilentFailoverOnFailure(e) ==
    /\ strategy = "silent-failover"
    /\ Report(e)
    /\ LET count == GetOrZero(failureCounts, e) + 1
       IN IF SwitchesAt(count, maxFailuresBeforeSwitch)
          THEN /\ currentIndex' = switchToNext(currentIndex, accountCount)
               /\ failureCounts' = MapDelete(MapSet(failureCounts, e, count), e)
          ELSE /\ failureCounts' = MapSet(failureCounts, e, count)
               /\ UNCHANGED currentIndex
    /\ last' = [Call("onFailure", e) EXCEPT !.matched = TRUE]
    /\ streak' = StreakAfterFailure(e)
    /\ UNCHANGED <<served, unmatched, strategy, component, accounts, acct, cooling,
                   accountCount, issueTracker,
                   switchThreshold, maxFailuresBeforeSwitch, activeAccounts,
                   activeAccountEmail, failureCount>>

(***************************************************************************)
(* OnDemandStrategy                                                        *)
(***************************************************************************)
\* The while loop of selectAccount: the first idx from startIndex whose account
\* is not invalid, or -1.
\* the scan without its !account.isInvalid test
OnDemandScanAnyAccount(accts, startIndex, attempts) ==
    IF attempts >= Len(accts) THEN -1 ELSE (startIndex + attempts) % Len(accts)

RECURSIVE OnDemandScan(_, _, _)
OnDemandScan(accts, startIndex, attempts) ==
    IF attempts >= Len(accts) THEN -1
    ELSE LET idx == (startIndex + attempts) % Len(accts)
         IN IF ~acct[At(accts, idx)].isInvalid THEN idx
            ELSE OnDemandScan(accts, startIndex, attempts + 1)

\* a selection that stores a count of 1 whatever the count was
AcquireOnce(active, e) == MapSet(active, e, 1)

\* (this.#activeAccounts.get(account.email) || 0) + 1, stored by selectAccount
Acquire(active, e) == MapSet(active, e, GetOrZero(active, e) + 1)

\* a release that forgets every outstanding use of the account at once
releaseAccountAll(active, e) ==
    [activeAccounts |-> MapDelete(active, e), disabled |-> TRUE]

\* a release whose test is activeCount < 1: the last release stores a count of 0
releaseAccountKeepLast(active, e) ==
    LET activeCount == GetOrZero(active, e)
    IN IF activeCount < 1
       THEN [activeAccounts |-> MapDelete(active, e), disabled |-> TRUE]
       ELSE [activeAccounts |-> MapSet(active, e, activeCount - 1), disabled |-> FALSE]

\* a release that decrements whatever the count, and never deletes the entry
releaseAccountDecrement(active, e) ==
    LET activeCount == GetOrZero(active, e)
    IN [activeAccounts |-> MapSet(active, e, activeCount - 1),
        disabled |-> activeCount <= 1]

\* a release whose test is activeCount <= 2
releaseAccountAtTwo(active, e) ==
    LET activeCount == GetOrZero(active, e)
    IN IF activeCount <= 2
       THEN [activeAccounts |-> MapDelete(active, e), disabled |-> TRUE]
       ELSE [activeAccounts |-> MapSet(active, e, activeCount - 1), disabled |-> FALSE]

\* a release that disables the account however many uses are outstanding
releaseAccountDisables(active, e) ==
    LET activeCount == GetOrZero(active, e)
    IN [activeAccounts |-> IF activeCount <= 1 THEN MapDelete(active, e)
                           ELSE MapSet(active, e, activeCount - 1),
        disabled |-> TRUE]

\* #releaseAccount(account, onSave): the map afterwards, and whether it took the
\* branch that disables the account and saves
releaseAccount(active, e) ==
    LET activeCount == GetOrZero(active, e)
    IN IF activeCount <= 1
       THEN [activeAccounts |-> MapDelete(active, e), disabled |-> TRUE]
       ELSE [activeAccounts |-> MapSet(active, e, activeCount - 1), disabled |-> FALSE]

\* a selection that leaves the cursor on the account it returned
AdvanceNot(idx, n) == idx

\* this.#currentIndex = (idx + 1) % accounts.length
AdvancePast(idx, n) == (idx + 1) % n

OnDemandSelectAccount(m) ==
    /\ strategy = "on-demand"
    /\ UNCHANGED <<unmatched, strategy, component, accounts, cooling, accountCount, issueTracker,
                   switchThreshold,
                   failureCounts, maxFailuresBeforeSwitch, activeAccountEmail, failureCount>>
    /\ IF Len(accounts) = 0
       THEN /\ last' = NotSelected(0, 0)
            /\ Dispatch(Null)
            /\ UNCHANGED <<acct, currentIndex, activeAccounts, served>>
       ELSE LET startIndex == currentIndex % Len(accounts)
                idx == OnDemandScan(accounts, startIndex, 0)
            IN IF idx # -1
               THEN LET e == At(accounts, idx)
                    IN /\ acct' = [acct EXCEPT ![e].enabled = TRUE]
                       /\ activeAccounts' = Acquire(activeAccounts, e)
                       /\ currentIndex' = AdvancePast(idx, Len(accounts))
                       /\ last' = Selected(e, idx, {<<e, "enabled">>, <<e, "lastUsed">>},
                                           startIndex)
                       /\ Dispatch(e)
                       /\ served' = served \cup {e}
               ELSE /\ last' = NotSelected(0, startIndex)
                    /\ Dispatch(Null)
                    /\ UNCHANGED <<acct, currentIndex, activeAccounts, served>>

\* onSuccess, onRateLimit and onFailure all call #releaseAccount.  The report is
\* for an outstanding selection of e (matched) or, when there is none, one more
\* report than there were selections.
OnDemandOutcome(op, e) ==
    /\ strategy = "on-demand"
    /\ e \in PoolEmails(strategy) \/ pending[e] > 0
    /\ pending[e] = 0 => unmatched[e] < MaxUnmatched
    /\ pending' = IF pending[e] > 0 THEN [pending EXCEPT ![e] = @ - 1] ELSE pending
    /\ unmatched' = IF pending[e] > 0 THEN unmatched ELSE [unmatched EXCEPT ![e] = @ + 1]
    /\ LET r == releaseAccount(activeAccounts, e)
       IN /\ activeAccounts' = r.activeAccounts
          /\ IF r.disabled
             THEN /\ acct' = [acct EXCEPT ![e].enabled = FALSE]
                  /\ last' = [Call(op, e) EXCEPT !.matched = (pending[e] > 0), !.saves = 1,
                                                 !.writes = {<<e, "enabled">>}]
             ELSE /\ acct' = acct
                  /\ last' = [Call(op, e) EXCEPT !.matched = (pending[e] > 0)]
    /\ streak' = NoStreak
    /\ UNCHANGED <<served, strategy, component, accounts, cooling, currentIndex, accountCount,
                   issueTracker,
                   switchThreshold, failureCounts, maxFailuresBeforeSwitch,
                   activeAccountEmail, failureCount, lastSel>>

OnDemandOnSuccess(e) == OnDemandOutcome("onSuccess", e)
OnDemandOnRateLimit(e) == OnDemandOutcome("onRateLimit", e)
OnDemandOnFailure(e) == OnDemandOutcome("onFailure", e)

\* The caller abandons a request after selectAccount returned e: no outcome
\* will be reported for it.  History: the selections of e left without a report
\* are counted below zero in unmatched.
Abandon(e) ==
    /\ strategy = "on-demand"
    /\ pending[e] > 0
    /\ unmatched[e] > -MaxUnmatched
    /\ pending' = [pending EXCEPT ![e] = @ - 1]
    /\ unmatched' = [unmatched EXCEPT ![e] = @ - 1]
    /\ last' = [NoCall("abandon") EXCEPT !.arg = e]
    /\ streak' = NoStreak
    /\ UNCHANGED <<served, strategy, component, accounts, acct, cooling, stratVars, lastSel>>

\* the outcome calls that report a request in flight
OnDemandPairedOutcome(e) ==
    /\ pending[e] > 0
    /\ \/ OnDemandOnSuccess(e)
       \/ OnDemandOnRateLimit(e)
       \/ OnDemandOnFailure(e)

(***************************************************************************)
(* The account store and the trackers (external collaborators).  QuotaFirst *)
(* keeps no state between calls: for it every pool and tracker state is an *)
(* initial state, and the store and the trackers do not move.              *)
(***************************************************************************)
External == NoCall("external")

\* History: a step of the store or of a tracker ends a run of failures at the
\* cursor; the Conservative run is counted from the activation, whatever the
\* store and the trackers do in between.
StreakAfterStore == IF strategy = "conservative" THEN streak ELSE NoStreak

\* The store adds an account to the pool.
StoreAdd(e) ==
    /\ strategy # "quota-first"
    /\ e \in PoolEmails(strategy)
    /\ e \notin Range(accounts)
    /\ accounts' = Append(accounts, e)
    /\ last' = External
    /\ streak' = StreakAfterStore
    /\ UNCHANGED <<strategy, component, acct, cooling, stratVars, pending, lastSel, served,
                   unmatched>>

\* The store removes an account from the pool.
StoreRemove(i) ==
    /\ strategy # "quota-first"
    /\ i \in 0..(Len(accounts) - 1)
    /\ accounts' = RemoveAt(accounts, i)
    /\ last' = External
    /\ streak' = StreakAfterStore
    /\ UNCHANGED <<strategy, component, acct, cooling, stratVars, pending, lastSel, served,
                   unmatched>>

\* A tracker starts or stops reporting an account as cooling down for a model.
TrackerChange(e, m) ==
    /\ strategy # "quota-first"
    /\ e \in PoolEmails(strategy)
    /\ cooling' = IF <<e, m>> \in cooling THEN cooling \ {<<e, m>>} ELSE cooling \cup {<<e, m>>}
    /\ last' = External
    /\ streak' = StreakAfterStore
    /\ UNCHANGED <<served, unmatched, strategy, component, accounts, acct, stratVars, pending,
                   lastSel>>

StoreNext ==
    \/ \E e \in Emails : StoreAdd(e)
    \/ \E i \in 0..(Cardinality(Emails) - 1) : StoreRemove(i)
    \/ \E e \in Emails, m \in ModelIds : TrackerChange(e, m)

(***************************************************************************)
(* Initial states: a strategy just constructed, and a pool.                *)
(***************************************************************************)
\* the arrays without a repeated email over the accounts S
Pools(S) == {s \in UNION {[1..n -> S] : n \in 0..Cardinality(S)} :
               \A i, j \in 1..Len(s) : i # j => s[i] # s[j]}

\* the keys of quota.models are "m1" and "m2"
Quota(m1, m2) == [k \in {"m1", "m2"} |-> IF k = "m1" THEN m1 ELSE m2]
NoQuota == Quota(Absent, Absent)

\* quota and subscription of the accounts of the ranking strategies
Profiles ==
    { [quota |-> Quota(50, Absent),     tier |-> "none"],
      [quota |-> Quota(25, Absent),     tier |-> "free"],
      [quota |-> Quota(0, Absent),      tier |-> "ultra"],
      [quota |-> Quota(Absent, 50),     tier |-> "none"],
      [quota |-> NoQuota,               tier |-> "pro"],
      [quota |-> NoQuota,               tier |-> "none"] }

\* those that Conservative ranks differently: scores 50, 0 and 70
ConservativeProfiles ==
    { [quota |-> Quota(50, Absent),     tier |-> "none"],
      [quota |-> Quota(0, Absent),      tier |-> "ultra"],
      [quota |-> NoQuota,               tier |-> "pro"] }

Account(enabled, isInvalid, profile) ==
    [enabled |-> enabled, isInvalid |-> isInvalid,
     quota |-> profile.quota, tier |-> profile.tier]

Plain == [quota |-> NoQuota, tier |-> "none"]

\* no settings page and no runner: a strategy or the factory is what runs
NoComponent == [kind |-> "none"]

\* no call made yet, no request in flight
InitCalls ==
    /\ cooling = {}
    /\ currentIndex = 0
    /\ accountCount = 1
    /\ issueTracker = EmptyMap
    /\ failureCounts = EmptyMap
    /\ activeAccounts = EmptyMap
    /\ activeAccountEmail = Null
    /\ failureCount = 0
    /\ pending = [e \in Emails |-> 0]
    /\ last = NoCall("init")
    /\ lastSel = Null
    /\ streak = NoStreak
    /\ served = {}
    /\ unmatched = [e \in Emails |-> 0]

InitCommon ==
    /\ InitCalls
    /\ component = NoComponent

\* new AggressiveStrategy(config)
InitAggressive ==
    /\ strategy = "aggressive"
    /\ InitCommon
    /\ accounts \in Pools(PoolEmails("aggressive"))
    /\ \E inv \in SUBSET PoolEmails("aggressive") :
         acct = [e \in Emails |-> Account(TRUE, e \in inv, Plain)]
    /\ \E cfg \in {-1, 0, 1, 2} : switchThreshold = OrDefault(cfg, 1)
    /\ maxFailuresBeforeSwitch = 1

\* new QuotaFirstStrategy(config)
InitQuotaFirst ==
    /\ strategy = "quota-first"
    /\ InitCommon
    /\ \E n \in 0..3 : accounts = SubSeq(<<"a@x", "b@x", "c@x">>, 1, n)
    /\ \E inv \in SUBSET PoolEmails("quota-first"),
          prof \in [PoolEmails("quota-first") -> Profiles] :
         acct = [e \in Emails |-> IF e \in PoolEmails("quota-first")
                                  THEN Account(TRUE, e \in inv, prof[e])
                                  ELSE Account(TRUE, FALSE, Plain)]
    /\ switchThreshold = 1
    /\ maxFailuresBeforeSwitch = 1

\* new ConservativeStrategy(config)
InitConservative ==
    /\ strategy = "conservative"
    /\ InitCommon
    /\ accounts \in Pools(PoolEmails("conservative"))
    /\ \E inv \in SUBSET PoolEmails("conservative"),
          en \in [PoolEmails("conservative") -> BOOLEAN],
          prof \in [PoolEmails("conservative") -> ConservativeProfiles] :
         acct = [e \in Emails |-> IF e \in PoolEmails("conservative")
                                  THEN Account(en[e], e \in inv, prof[e])
                                  ELSE Account(TRUE, FALSE, Plain)]
    /\ switchThreshold = 1
    /\ \E cfg \in {0, 2} : maxFailuresBeforeSwitch = OrDefault(cfg, 3)

\* new SilentFailoverStrategy(config)
InitSilentFailover ==
    /\ strategy = "silent-failover"
    /\ InitCommon
    /\ accounts \in Pools(PoolEmails("silent-failover"))
    /\ \E inv \in SUBSET PoolEmails("silent-failover") :
         acct = [e \in Emails |-> Account(TRUE, e \in inv, Plain)]
    /\ switchThreshold = 1
    /\ \E cfg \in {0, 1, 2} : maxFailuresBeforeSwitch = OrDefault(cfg, 1)

\* new OnDemandStrategy(config)
InitOnDemand ==
    /\ strategy = "on-demand"
    /\ InitCommon
    /\ accounts \in Pools(PoolEmails("on-demand"))
    /\ \E inv \in SUBSET PoolEmails("on-demand"),
          en \in [PoolEmails("on-demand") -> BOOLEAN] :
         acct = [e \in Emails |-> IF e \in PoolEmails("on-demand")
                                  THEN Account(en[e], e \in inv, Plain)
                                  ELSE Account(TRUE, FALSE, Plain)]
    /\ switchThreshold = 1
    /\ maxFailuresBeforeSwitch = 1

\* new OnDemandStrategy(config) in front of a pool of four accounts that the
\* store only shrinks
InitOnDemandShrinking ==
    /\ strategy = "on-demand"
    /\ InitCommon
    /\ accounts = <<"a@x", "b@x", "c@x", "d@x">>
    /\ \E inv \in SUBSET {"b@x", "c@x"} :
         acct = [e \in Emails |-> Account(TRUE, e \in inv, Plain)]
    /\ switchThreshold = 1
    /\ maxFailuresBeforeSwitch = 1

Init ==
    \/ InitAggressive
    \/ InitQuotaFirst
    \/ InitConservative
    \/ InitSilentFailover
    \/ InitOnDemand

(***************************************************************************)
(* Next-state relations.                                                   *)
(***************************************************************************)
AggressiveCalls ==
    \/ \E m \in ModelIds : AggressiveSelectAccount(m)
    \/ \E e \in Emails : AggressiveOnSuccess(e)
    \/ \E e \in Emails : AggressiveOnRateLimit(e)
    \/ \E e \in Emails : AggressiveOnFailure(e)

QuotaFirstCalls ==
    \/ \E m \in ModelIds : QuotaFirstSelectAccount(m)
    \/ \E e \in Emails : QuotaFirstOnSuccess(e)
    \/ \E e \in Emails : QuotaFirstOnRateLimit(e)
    \/ \E e \in Emails : QuotaFirstOnFailure(e)

ConservativeCalls ==
    \/ \E m \in ModelIds : ConservativeSelectAccount(m)
    \/ \E e \in Emails : ConservativeOnSuccess(e)
    \/ \E e \in Emails : ConservativeOnRateLimit(e)
    \/ \E e \in Emails : ConservativeOnFailure(e)

SilentFailoverCalls ==
    \/ \E m \in ModelIds : SilentFailoverSelectAccount(m)
    \/ \E e \in Emails : SilentFailoverOnSuccess(e)
    \/ \E e \in Emails : SilentFailoverOnRateLimit(e)
    \/ \E e \in Emails : SilentFailoverOnFailure(e)

OnDemandCalls ==
    \/ \E m \in ModelIds : OnDemandSelectAccount(m)
    \/ \E e \in Emails : OnDemandOnSuccess(e)
    \/ \E e \in Emails : OnDemandOnRateLimit(e)
    \/ \E e \in Emails : OnDemandOnFailure(e)

Next ==
    \/ AggressiveCalls
    \/ QuotaFirstCalls
    \/ ConservativeCalls
    \/ SilentFailoverCalls
    \/ OnDemandCalls
    \/ StoreNext

\* every strategy, each on its own pool
Spec == Init /\ [][Next]_vars

SpecAggressive == InitAggressive /\ [][AggressiveCalls \/ StoreNext]_vars
SpecQuotaFirst == InitQuotaFirst /\ [][QuotaFirstCalls]_vars
SpecConservative == InitConservative /\ [][ConservativeCalls \/ StoreNext]_vars
SpecSilentFailover == InitSilentFailover /\ [][SilentFailoverCalls \/ StoreNext]_vars
SpecOnDemand == InitOnDemand /\ [][OnDemandCalls \/ StoreNext]_vars

\* Conservative on a pool that only the strategy mutates: the store adds and
\* removes no account; the trackers still move.
SpecOnDemandShrinking ==
    InitOnDemandShrinking /\ [][OnDemandCalls \/ \E i \in 0..3 : StoreRemove(i)]_vars
\* OnDemand on a fixed pool of four accounts
SpecOnDemandFixedPool == InitOnDemandShrinking /\ [][OnDemandCalls]_vars
\* OnDemand with abandoned requests: every outcome call reports a request in
\* flight, some requests are never reported
SpecOnDemandAbandoned ==
    InitOnDemand /\ [][\/ \E m \in ModelIds : OnDemandSelectAccount(m)
                       \/ \E e \in Emails : OnDemandPairedOutcome(e)
                       \/ \E e \in Emails : Abandon(e)
                       \/ StoreNext]_vars
TrackerNext == \E e \in Emails, m \in ModelIds : TrackerChange(e, m)
SpecConservativeOwnPool == InitConservative /\ [][ConservativeCalls \/ TrackerNext]_vars

\* SilentFailover on a pool that the store leaves as it is: requests overlap,
\* their outcome reports arrive in any order, the trackers still move.
SpecSilentFailoverFixedPool ==
    InitSilentFailover /\ [][SilentFailoverCalls \/ TrackerNext]_vars

(***************************************************************************)
(* Strategy factory.  A strategy name is a string, here the sequence of its *)
(* characters.                                                             *)
(***************************************************************************)
Letters == <<"a", "b", "c", "d", "e", "f", "g", "h", "i", "j", "k", "l", "m", "n", "o", "p", "q", "r", "s", "t", "u", "v", "w", "x", "y", "z">>
Capitals == <<"A", "B", "C", "D", "E", "F", "G", "H", "I", "J", "K", "L", "M", "N", "O", "P", "Q", "R", "S", "T", "U", "V", "W", "X", "Y", "Z">>

\* String.prototype.toLowerCase on one character, and on a string
LowerChar(c) ==
    IF \E k \in 1..Len(Capitals) : Capitals[k] = c
    THEN Letters[CHOOSE k \in 1..Len(Capitals) : Capitals[k] = c]
    ELSE c

\* a conversion that leaves the capitals as they are
toLowerCaseNone(str) == str

toLowerCase(str) == [i \in 1..Len(str) |-> LowerChar(str[i])]

UpperChar(c) ==
    IF \E k \in 1..Len(Letters) : Letters[k] = c
    THEN Capitals[CHOOSE k \in 1..Len(Letters) : Letters[k] = c]
    ELSE c

\* the names and aliases of the switch in createStrategy
NameSticky == <<"s", "t", "i", "c", "k", "y">>
NameRoundRobin == <<"r", "o", "u", "n", "d", "-", "r", "o", "b", "i", "n">>
AliasRoundRobin == <<"r", "o", "u", "n", "d", "r", "o", "b", "i", "n">>
NameHybrid == <<"h", "y", "b", "r", "i", "d">>
NameSilentFailover == <<"s", "i", "l", "e", "n", "t", "-", "f", "a", "i", "l", "o", "v", "e", "r">>
AliasSilentFailover == <<"s", "i", "l", "e", "n", "t", "f", "a", "i", "l", "o", "v", "e", "r">>
NameOnDemand == <<"o", "n", "-", "d", "e", "m", "a", "n", "d">>
AliasOnDemand == <<"o", "n", "d", "e", "m", "a", "n", "d">>
NameAggressive == <<"a", "g", "g", "r", "e", "s", "s", "i", "v", "e">>
NameQuotaFirst == <<"q", "u", "o", "t", "a", "-", "f", "i", "r", "s", "t">>
AliasQuotaFirst == <<"q", "u", "o", "t", "a", "f", "i", "r", "s", "t">>
NameConservative == <<"c", "o", "n", "s", "e", "r", "v", "a", "t", "i", "v", "e">>

\* SELECTION_STRATEGIES and DEFAULT_SELECTION_STRATEGY of constants.js
STRATEGY_NAMES ==
    {NameSticky, NameRoundRobin, NameHybrid, NameSilentFailover, NameOnDemand,
     NameAggressive, NameQuotaFirst, NameConservative}
DEFAULT_STRATEGY == NameHybrid

\* what a call returned: the class of the new strategy, or the error it threw
Constructed(class) == [class |-> class, threw |-> FALSE]
Thrown == [class |-> Null, threw |-> TRUE]

\* a default branch that rejects the name
DefaultBranchThrows == Thrown

\* default: logger.warn(...); return new HybridStrategy(config)
DefaultBranch == Constructed("HybridStrategy")

createStrategy(strategyName) ==
    LET name == toLowerCase(IF strategyName = <<>> THEN DEFAULT_STRATEGY ELSE strategyName)
    IN CASE name = NameSticky -> Constructed("StickyStrategy")
         [] name \in {NameRoundRobin, AliasRoundRobin} -> Constructed("RoundRobinStrategy")
         [] name = NameHybrid -> Constructed("HybridStrategy")
         [] name \in {NameSilentFailover, AliasSilentFailover} ->
                Constructed("SilentFailoverStrategy")
         [] name \in {NameOnDemand, AliasOnDemand} -> Constructed("OnDemandStrategy")
         [] name = NameAggressive -> Constructed("AggressiveStrategy")
         [] name \in {NameQuotaFirst, AliasQuotaFirst} -> Constructed("QuotaFirstStrategy")
         [] name = NameConservative -> Constructed("ConservativeStrategy")
         [] OTHER -> DefaultBranch

isValidStrategy(name) ==
    IF name = <<>> THEN FALSE
    ELSE LET lower == toLowerCase(name)
             aliases == {AliasRoundRobin, AliasSilentFailover, AliasOnDemand, AliasQuotaFirst}
         IN lower \in STRATEGY_NAMES \/ lower \in aliases

\* The names the factory is called with: the names and aliases and some strings
\* that are neither, each in several letter casings.
Cased(str, pat) ==
    [i \in 1..Len(str) |->
        IF \/ pat = "upper"
           \/ pat = "capital" /\ i = 1
           \/ pat = "odd" /\ i % 2 = 1
           \/ pat = "even" /\ i % 2 = 0
        THEN UpperChar(str[i]) ELSE str[i]]
FactoryNames ==
    {Cased(str, pat) :
        str \in STRATEGY_NAMES
                  \cup {AliasRoundRobin, AliasSilentFailover, AliasOnDemand, AliasQuotaFirst}
                  \cup {<<>>,
                        <<"s", "t", "i", "k", "y">>,
                        <<"h", "y", "b", "r", "i", "d", " ">>,
                        <<"r", "o", "u", "n", "d", "_", "r", "o", "b", "i", "n">>,
                        <<"r", "o", "u", "n", "d", "-", "r", "o", "b", "i", "n", "-", "2">>,
                        <<"q", "u", "o", "t", "a">>,
                        <<"o", "n", "-", "d", "e", "m", "a", "n", "d", "-", "s", "t", "r", "a", "t", "e", "g", "y">>,
                        <<"d", "e", "f", "a", "u", "l", "t">>,
                        <<"s", "i", "l", "e", "n", "t", " ", "f", "a", "i", "l", "o", "v", "e", "r">>},
        pat \in {"lower", "upper", "capital", "odd", "even"}}

CreateStrategy(strategyName) ==
    /\ strategy = "none"
    /\ last' = [NoCall("createStrategy") EXCEPT !.arg = strategyName,
                  !.result = createStrategy(strategyName).class,
                  !.threw = createStrategy(strategyName).threw]
    /\ UNCHANGED <<strategy, component, accounts, acct, cooling, stratVars, pending, lastSel,
                   streak,
                   served, unmatched>>

IsValidStrategy(name) ==
    /\ strategy = "none"
    /\ last' = [NoCall("isValidStrategy") EXCEPT !.arg = name,
                                                  !.result = isValidStrategy(name)]
    /\ UNCHANGED <<strategy, component, accounts, acct, cooling, stratVars, pending, lastSel,
                   streak,
                   served, unmatched>>

\* no strategy instance
InitNoStrategy ==
    /\ InitCalls
    /\ strategy = "none"
    /\ accounts = <<>>
    /\ acct = [e \in Emails |-> Account(TRUE, FALSE, Plain)]
    /\ switchThreshold = 1
    /\ maxFailuresBeforeSwitch = 1

InitFactory ==
    /\ InitNoStrategy
    /\ component = NoComponent

FactoryNext ==
    \E name \in FactoryNames : CreateStrategy(name) \/ IsValidStrategy(name)

SpecFactory == InitFactory /\ [][FactoryNext]_vars

(***************************************************************************)
(* Properties.                                                             *)
(***************************************************************************)
Outcomes == {"onSuccess", "onRateLimit", "onFailure"}
UsableIn(accts, m) == {e \in Range(accts) : IsAccountUsable(e, m)}

\* C1: for each of the five strategies and whatever its internal state,
\* selectAccount on an empty pool returns {account: null, index: 0, waitMs: 0},
\* does not throw and does not call onSave.
C1_EmptyPool ==
    (last.op = "selectAccount" /\ last.n = 0)
        => /\ last.account = Null
           /\ last.index = 0
           /\ last.waitMs = 0
           /\ ~last.threw
           /\ last.saves = 0

\* an empty pool handed to a strategy whose cursor and counters have moved
C1_Witness ==
    /\ last.op = "selectAccount"
    /\ last.n = 0
    /\ strategy = "aggressive"
    /\ currentIndex > 0
    /\ issueTracker # EmptyMap

\* C2: no selectAccount of any strategy returns an account whose isInvalid is true.
C2_NeverInvalid ==
    (last.op = "selectAccount" /\ last.account # Null) => ~acct[last.account].isInvalid

\* an account returned from behind an invalid one
C2_Witness ==
    /\ last.op = "selectAccount"
    /\ last.account # Null
    /\ last.index > 0
    /\ acct[At(accounts, 0)].isInvalid

\* C3: once Conservative has activated an account, at most one account of the
\* pool is enabled, for every interleaving of the calls of overlapping requests
\* (on a pool that only the strategy mutates).
C3_SingleActive ==
    (strategy = "conservative" /\ lastSel # Null)
        => Cardinality({e \in Range(accounts) : acct[e].enabled}) <= 1

\* a second activation, made while the request of the first is still in flight,
\* in a pool of two accounts of which the first activation disabled one
C3_Witness ==
    /\ strategy = "conservative"
    /\ last.op = "selectAccount"
    /\ last.account # Null
    /\ <<last.account, "enabled">> \in last.writes
    /\ InflightTotal = 2
    /\ Len(accounts) = 2
    /\ Cardinality({e \in Range(accounts) : acct[e].enabled}) = 1

\* C4: the active-use count of an account is the number of its selections whose
\* outcome has not been reported: selectAccount adds exactly one and the one
\* outcome call of that selection (onSuccess, onRateLimit or onFailure alike)
\* takes exactly one away, whatever other requests do in between.
C4_RefCountSymmetry ==
    strategy = "on-demand"
        => \A e \in Emails : GetOrZero(activeAccounts, e) = pending[e]

\* one of two overlapping requests on an account has just been released
C4_Witness ==
    /\ strategy = "on-demand"
    /\ last.op \in Outcomes
    /\ last.matched
    /\ pending[last.arg] = 1
    /\ GetOrZero(activeAccounts, last.arg) = 1

\* selectAccount calls that returned e minus the release calls made for e
OnDemandBalance(e) == pending[e] - unmatched[e]

\* C5: OnDemand: in every state in which as many release calls (onSuccess,
\* onRateLimit, onFailure) were made for X as selectAccount calls returned X,
\* X.enabled is false and X has no positive count, whatever X.enabled was before
\* the first selection.
C5_EqualCounts ==
    strategy = "on-demand"
        => \A e \in served : OnDemandBalance(e) = 0 =>
               (acct[e].enabled = FALSE /\ GetOrZero(activeAccounts, e) <= 0)

\* C5, with the releases tied to the selections: when no selection of X is
\* outstanding (each has had its outcome reported), X.enabled is false and X has
\* no entry in the count map, whatever X.enabled was before the first selection
\* and however many further release calls were made for X.
C5_DisabledWhenReleased ==
    strategy = "on-demand"
        => \A e \in served : pending[e] = 0 =>
               (acct[e].enabled = FALSE /\ e \notin DOMAIN activeAccounts)

\* the release of the only outstanding selection of an account
C5_Witness ==
    /\ strategy = "on-demand"
    /\ last.op \in Outcomes
    /\ last.matched
    /\ last.arg \in served
    /\ pending[last.arg] = 0
    /\ <<last.arg, "enabled">> \in last.writes

\* C6: OnDemand: no count of the map is ever zero or negative, also when two
\* requests release one account back to back and when the release calls
\* outnumber the selections.
C6_CountsPositive ==
    strategy = "on-demand" => \A e \in DOMAIN activeAccounts : activeAccounts[e] >= 1

\* a release of an account none of whose selections is outstanding
C6_Witness ==
    /\ strategy = "on-demand"
    /\ last.op \in Outcomes
    /\ ~last.matched
    /\ last.arg \in served

\* C7: QuotaFirst returns a usable account of maximal quota score, the one of
\* lowest pool index among those of maximal score, with its index in the pool
\* as given (and null when no account is usable).
C7_QuotaFirstMax ==
    (strategy = "quota-first" /\ last.op = "selectAccount") =>
        \E m \in ModelIds :
            LET usable == UsableIn(accounts, m)
                x == last.account
            IN IF usable = {} THEN x = Null
               ELSE /\ x \in usable
                    /\ last.index \in 0..(Len(accounts) - 1)
                    /\ At(accounts, last.index) = x
                    /\ \A i \in 0..(Len(accounts) - 1) :
                         At(accounts, i) \in usable =>
                            \/ QuotaFirstScore(At(accounts, i), m) < QuotaFirstScore(x, m)
                            \/ /\ QuotaFirstScore(At(accounts, i), m) = QuotaFirstScore(x, m)
                               /\ i >= last.index

\* an account returned from behind an unusable one and ahead of one that ties
C7_Witness ==
    /\ strategy = "quota-first"
    /\ last.op = "selectAccount"
    /\ Len(accounts) = 3
    /\ last.index = 1
    /\ ~IsAccountUsable(At(accounts, 0), "m1")
    /\ IsAccountUsable(At(accounts, 2), "m1")
    /\ QuotaFirstScore(At(accounts, 2), "m1") = QuotaFirstScore(At(accounts, 1), "m1")

\* C8: QuotaFirst: an account with a numeric remainingFraction for the requested
\* model scores remainingFraction x 100 whatever its tier, so an account whose
\* remainingFraction for the model is 0 is not returned while a usable account
\* with a positive remainingFraction for the model is in the pool.
C8_TierOnlyFallback ==
    (strategy = "quota-first" /\ last.op = "selectAccount" /\ last.account # Null) =>
        \A m \in ModelIds :
            LET q == acct[last.account].quota[m]
            IN (q # Absent /\ q # NotANumber) =>
                   /\ QuotaFirstScore(last.account, m) = 2 * q
                   /\ q = 0 => ~\E e \in UsableIn(accounts, m) :
                                   acct[e].quota[m] # NotANumber /\ acct[e].quota[m] > 0

\* C9: SilentFailover: from a state with the cursor on a usable account X without
\* recorded failures and another usable account in the pool, fewer than
\* maxFailuresBeforeSwitch consecutive onFailure(X) leave the next selectAccount
\* returning X, and the maxFailuresBeforeSwitch-th makes it return another account.
C9_FailureThreshold ==
    (/\ strategy = "silent-failover"
     /\ last.op = "selectAccount"
     /\ last.streak.account # Null
     /\ \E m \in ModelIds :
          /\ IsAccountUsable(last.streak.account, m)
          /\ UsableIn(accounts, m) \ {last.streak.account} # {})
        => /\ last.streak.n < maxFailuresBeforeSwitch => last.account = last.streak.account
           /\ last.streak.n = maxFailuresBeforeSwitch =>
                 (last.account # Null /\ last.account # last.streak.account)

\* C10: Aggressive with switchThreshold 1 and a pool of two usable accounts: after
\* an onFailure for the account most recently returned by selectAccount, the
\* next selectAccount returns the other account.
C10_RotatesOnFailure ==
    (/\ strategy = "aggressive"
     /\ switchThreshold = 1
     /\ last.op = "selectAccount"
     /\ last.streak.account # Null
     /\ Len(accounts) = 2
     /\ \E m \in ModelIds : UsableIn(accounts, m) = Range(accounts))
        => (last.account # Null /\ last.account # last.streak.account)

\* C11: Aggressive selectAccount on a non-empty pool without a usable account
\* returns with account: null; it does not throw and does not recurse without end.
C11_NoUsableReturnsNull ==
    (/\ strategy = "aggressive"
     /\ last.op = "selectAccount"
     /\ last.n > 0
     /\ \E m \in ModelIds : UsableIn(accounts, m) = {})
        => (last.account = Null /\ ~last.threw)

\* str is w in some letter casing
IsCasingOf(str, w) ==
    /\ Len(str) = Len(w)
    /\ \A i \in 1..Len(w) : str[i] = w[i] \/ str[i] = UpperChar(w[i])

\* the recognised names and aliases, each with the variant it stands for
RecognisedNames ==
    { <<NameSticky, "StickyStrategy">>, <<NameHybrid, "HybridStrategy">>,
      <<NameAggressive, "AggressiveStrategy">>, <<NameConservative, "ConservativeStrategy">>,
      <<NameRoundRobin, "RoundRobinStrategy">>, <<AliasRoundRobin, "RoundRobinStrategy">>,
      <<NameSilentFailover, "SilentFailoverStrategy">>,
      <<AliasSilentFailover, "SilentFailoverStrategy">>,
      <<NameOnDemand, "OnDemandStrategy">>, <<AliasOnDemand, "OnDemandStrategy">>,
      <<NameQuotaFirst, "QuotaFirstStrategy">>, <<AliasQuotaFirst, "QuotaFirstStrategy">> }

\* C12: createStrategy throws for no string: for every string that is not a
\* recognised name or alias in some letter casing it returns a new Hybrid strategy.
C12_UnknownFallsBack ==
    (/\ last.op = "createStrategy"
     /\ \A r \in RecognisedNames : ~IsCasingOf(last.arg, r[1]))
        => (~last.threw /\ last.result = "HybridStrategy")

\* an unknown name with capitals, close to a recognised one
C12_Witness ==
    /\ last.op = "createStrategy"
    /\ last.arg = Cased(<<"r", "o", "u", "n", "d", "_", "r", "o", "b", "i", "n">>, "upper")
    /\ last.result = "HybridStrategy"

\* C13: createStrategy maps every letter casing of a recognised name or alias to
\* the variant it stands for, and isValidStrategy accepts every such string.
C13_AliasesAndCase ==
    /\ last.op = "createStrategy" =>
          \A r \in RecognisedNames :
              IsCasingOf(last.arg, r[1]) => (~last.threw /\ last.result = r[2])
    /\ last.op = "isValidStrategy" =>
          ((\E r \in RecognisedNames : IsCasingOf(last.arg, r[1])) => last.result = TRUE)

\* an alias in mixed case that yields the variant of the hyphenated name
C13_Witness ==
    /\ last.op = "createStrategy"
    /\ last.arg = Cased(AliasSilentFailover, "odd")
    /\ last.arg # AliasSilentFailover
    /\ last.result = "SilentFailoverStrategy"

StrategyCalls == {"selectAccount"} \cup Outcomes

\* C15: for every strategy, a call (selectAccount or an outcome call) that
\* writes a field of an account (lastUsed or enabled) calls onSave exactly once,
\* and a call that writes no account field does not call it; a selectAccount
\* that returns an account calls it exactly once.
C15_SaveOncePerMutation ==
    last.op \in StrategyCalls
        => /\ last.writes # {} => last.saves = 1
           /\ last.writes = {} => last.saves = 0
           /\ (last.op = "selectAccount" /\ last.account # Null) => last.saves = 1

\* Conservative's activation wrote the enabled field of two accounts in its loop
\* and outside it, and saved once
C15_Witness ==
    /\ strategy = "conservative"
    /\ last.op = "selectAccount"
    /\ last.account # Null
    /\ \E e \in Range(accounts) : e # last.account /\ <<e, "enabled">> \in last.writes
    /\ <<last.account, "enabled">> \in last.writes
    /\ last.saves = 1

\* C16: for every strategy, a selectAccount that returns account: null leaves
\* the fields of every account as they were (enabled and lastUsed among them) and
\* does not call onSave.
C16_NullLeavesAccounts ==
    [][(last'.op = "selectAccount" /\ last'.account = Null /\ ~last'.threw)
          => (acct' = acct /\ last'.writes = {} /\ last'.saves = 0)]_vars

\* SilentFailover found no usable account in a pool of two and put its cursor,
\* which the scan had moved, back on index 1
C16_Witness ==
    /\ strategy = "silent-failover"
    /\ last.op = "selectAccount"
    /\ last.account = Null
    /\ last.n = 2
    /\ last.index = 1
    /\ currentIndex = 1

\* C17: for every strategy, onSuccess changes no field of any account: after
\* the call every account record is as it was before it.
C17_OnSuccessNoMutation ==
    [][last'.op = "onSuccess" => (acct' = acct /\ last'.writes = {})]_vars

\* C17, with OnDemand set apart: onSuccess of Aggressive, QuotaFirst,
\* Conservative and SilentFailover changes no field of any account; OnDemand's
\* onSuccess changes at most the enabled field of the account it is called for,
\* to false, and only when that account is left without a count.
C17_OnSuccessOnlyRelease ==
    [][last'.op = "onSuccess" =>
          /\ strategy # "on-demand" => (acct' = acct /\ last'.writes = {})
          /\ strategy = "on-demand" =>
               /\ \A e \in Emails \ {last'.arg} : acct'[e] = acct[e]
               /\ \/ acct'[last'.arg] = acct[last'.arg] /\ last'.writes = {}
                  \/ /\ acct'[last'.arg] = [acct[last'.arg] EXCEPT !.enabled = FALSE]
                     /\ last'.arg \notin DOMAIN activeAccounts'
                     /\ last'.writes = {<<last'.arg, "enabled">>}]_vars

\* an OnDemand onSuccess that released the last use of an account and disabled it
C17_Witness ==
    /\ strategy = "on-demand"
    /\ last.op = "onSuccess"
    /\ last.matched
    /\ <<last.arg, "enabled">> \in last.writes
    /\ ~acct[last.arg].enabled

\* C18: for Aggressive, SilentFailover and Conservative, onSuccess(X) clears only
\* the counter of X: the issue or failure count of every other account is as it
\* was, and under Conservative the failure counter of the active account is as
\* it was when X is not the active account.
C18_OnSuccessClearsOnlyOwn ==
    [][last'.op = "onSuccess" =>
          /\ strategy = "aggressive" =>
               \A e \in Emails \ {last'.arg} :
                   GetOrZero(issueTracker', e) = GetOrZero(issueTracker, e)
          /\ strategy = "silent-failover" =>
               \A e \in Emails \ {last'.arg} :
                   GetOrZero(failureCounts', e) = GetOrZero(failureCounts, e)
          /\ (strategy = "conservative" /\ last'.arg # activeAccountEmail) =>
               failureCount' = failureCount]_vars

CursorStrategies == {"aggressive", "silent-failover", "on-demand"}

\* C19: for Aggressive, SilentFailover and OnDemand, a selectAccount that finds
\* the stored cursor greater than or equal to the length of the (non-empty) pool
\* starts its scan at index 0.
C19_CursorClampedToZero ==
    [][(/\ last'.op = "selectAccount"
        /\ strategy \in CursorStrategies
        /\ Len(accounts) > 0
        /\ currentIndex >= Len(accounts))
          => last'.start = 0]_vars

\* the offsets from cur, in cyclic order, of the accounts that are usable and
\* have fewer than switchThreshold issues
AggressiveEligible(cur, m) ==
    {k \in 0..(Len(accounts) - 1) :
        LET e == At(accounts, (cur + k) % Len(accounts))
        IN IsAccountUsable(e, m) /\ GetOrZero(issueTracker, e) < switchThreshold}
MinOf(S) == CHOOSE k \in S : \A j \in S : k <= j

\* C20: Aggressive selectAccount returns the first account, in cyclic pool order
\* from the cursor (0 if the cursor is past the pool), that is usable and has
\* fewer than switchThreshold issues, and leaves the cursor on it; a selectAccount
\* that directly follows one that returned an account returns the same account.
C20_FirstEligibleFromCursor ==
    [][(strategy = "aggressive" /\ last'.op = "selectAccount" /\ Len(accounts) > 0) =>
          \E m \in ModelIds :
              LET cur == IF currentIndex >= Len(accounts) THEN 0 ELSE currentIndex
                  eligible == AggressiveEligible(cur, m)
                  first == (cur + MinOf(eligible)) % Len(accounts)
              IN /\ eligible # {} =>
                      /\ last'.account = At(accounts, first)
                      /\ last'.index = first
                      /\ currentIndex' = first
                 /\ (last.op = "selectAccount" /\ last.account # Null) =>
                      last'.account = last.account]_vars

\* a selection that passed over the account under the cursor, which has an issue
C20_Witness ==
    /\ strategy = "aggressive"
    /\ last.op = "selectAccount"
    /\ last.account # Null
    /\ last.index # last.start
    /\ IsAccountUsable(At(accounts, last.start), "m1")
    /\ GetOrZero(issueTracker, At(accounts, last.start)) >= switchThreshold
    /\ currentIndex = last.index

\* C21: Aggressive selectAccount with switchThreshold >= 1 and a usable account
\* in the pool returns a usable account after at most one clearing of the issue
\* counts, whatever the issue counts and the cursor.
C21_AtMostOneClear ==
    (/\ strategy = "aggressive"
     /\ last.op = "selectAccount"
     /\ switchThreshold >= 1
     /\ \E m \in ModelIds : UsableIn(accounts, m) # {})
        => /\ ~last.threw
           /\ last.account # Null
           /\ \E m \in ModelIds : IsAccountUsable(last.account, m)
           /\ last.clears <= 1

\* every usable account had reached the threshold: the counts were cleared once
\* and the retry returned the usable account under the cursor
C21_Witness ==
    /\ strategy = "aggressive"
    /\ last.op = "selectAccount"
    /\ last.clears = 1
    /\ last.account # Null
    /\ last.index = last.start
    /\ issueTracker = EmptyMap
    /\ Cardinality(UsableIn(accounts, "m1")) = 2

\* C22: Aggressive selectAccount returns a usable account whenever the pool has
\* one, for every configured switchThreshold, 0 and negative values included.
C22_AnyThresholdTerminates ==
    (/\ strategy = "aggressive"
     /\ last.op = "selectAccount"
     /\ \E m \in ModelIds : UsableIn(accounts, m) # {})
        => /\ ~last.threw
           /\ last.account # Null
           /\ \E m \in ModelIds : IsAccountUsable(last.account, m)

\* C23: Conservative selectAccount, when the activated account is still in the
\* pool and usable, returns that account and leaves the active-account pointer,
\* the failure counter and every account's fields but its lastUsed unchanged.
C23_ReuseLeavesState ==
    [][(/\ strategy = "conservative"
        /\ last'.op = "selectAccount"
        /\ activeAccountEmail # Null
        /\ activeAccountEmail \in Range(accounts)
        /\ \E m \in ModelIds : IsAccountUsable(activeAccountEmail, m))
           => /\ last'.account = activeAccountEmail
              /\ last'.index = FindIndex(accounts, activeAccountEmail)
              /\ activeAccountEmail' = activeAccountEmail
              /\ failureCount' = failureCount
              /\ acct' = acct
              /\ last'.writes = {<<activeAccountEmail, "lastUsed">>}]_vars

\* the active account is reused after a failure, although another account of the
\* pool now ranks first
C23_Witness ==
    /\ strategy = "conservative"
    /\ last.op = "selectAccount"
    /\ last.account # Null
    /\ last.account = activeAccountEmail
    /\ last.writes = {<<activeAccountEmail, "lastUsed">>}
    /\ failureCount >= 1
    /\ findBestAccount(accounts, "m1").account # activeAccountEmail

\* C24: Conservative onRateLimit for the active account deactivates it at once:
\* its enabled flag becomes false, the active pointer null and the failure
\* counter 0.  onRateLimit and onFailure for an account that is not the active
\* one change neither the pointer, nor the counter, nor any account.
C24_RateLimitDeactivates ==
    [][(strategy = "conservative" /\ last'.op \in {"onRateLimit", "onFailure"})
           => IF last'.arg = activeAccountEmail
              THEN last'.op = "onRateLimit"
                      => /\ acct' = [acct EXCEPT ![last'.arg].enabled = FALSE]
                         /\ activeAccountEmail' = Null
                         /\ failureCount' = 0
              ELSE /\ acct' = acct
                   /\ activeAccountEmail' = activeAccountEmail
                   /\ failureCount' = failureCount]_vars

\* the first rate limit reported for the active account, which was enabled and
\* had failures counted, deactivated it
C24_Witness ==
    /\ strategy = "conservative"
    /\ last.op = "onRateLimit"
    /\ last.arg # Null
    /\ last.writes = {<<last.arg, "enabled">>}
    /\ acct[last.arg].enabled = FALSE
    /\ activeAccountEmail = Null
    /\ failureCount = 0
    /\ maxFailuresBeforeSwitch = 3

\* C25: Conservative onFailure for the active account deactivates it exactly
\* when the call is the maxFailuresBeforeSwitch-th onFailure for that account
\* since its activation with no onSuccess in between; an earlier failure of the
\* run leaves the account active and every account as it was.
C25_FailureThreshold ==
    [][(/\ strategy = "conservative"
        /\ last'.op = "onFailure"
        /\ last'.arg = activeAccountEmail)
           => /\ streak.account = activeAccountEmail
              /\ IF streak.n + 1 = maxFailuresBeforeSwitch
                 THEN /\ activeAccountEmail' = Null
                      /\ acct' = [acct EXCEPT ![last'.arg].enabled = FALSE]
                 ELSE /\ streak.n + 1 < maxFailuresBeforeSwitch
                      /\ activeAccountEmail' = activeAccountEmail
                      /\ acct' = acct]_vars

\* the third failure in a row of the active account, under the default
\* threshold, deactivated it
C25_Witness ==
    /\ strategy = "conservative"
    /\ last.op = "onFailure"
    /\ maxFailuresBeforeSwitch = 3
    /\ streak = [account |-> last.arg, n |-> 3]
    /\ activeAccountEmail = Null
    /\ acct[last.arg].enabled = FALSE
    /\ last.writes = {<<last.arg, "enabled">>}

\* C26: Conservative: the selectAccount that follows the deactivation of the
\* active account X (by onRateLimit or by the failure threshold) returns an
\* account other than X whenever the pool holds another account that is not
\* invalid.
C26_SwitchesAfterDeactivation ==
    [][(/\ strategy = "conservative"
        /\ last.op \in {"onRateLimit", "onFailure"}
        /\ last.writes = {<<last.arg, "enabled">>}
        /\ activeAccountEmail = Null
        /\ last'.op = "selectAccount"
        /\ \E x \in Range(accounts) \ {last.arg} : ~acct[x].isInvalid)
           => /\ last'.account # Null
              /\ last'.account # last.arg]_vars

\* C28: every account Conservative selectAccount returns, on the reuse path and
\* on the activation path, is not invalid and not reported as cooling down for
\* the requested model at the time of the call.
C28_NeverCooling ==
    [][(strategy = "conservative" /\ last'.op = "selectAccount" /\ last'.account # Null)
           => /\ ~acct[last'.account].isInvalid
              /\ \A m \in ModelIds : <<last'.account, m>> \notin cooling]_vars

\* C27: for every pair of accounts and every model, the Conservative score
\* (#getQuotaScore) orders the two accounts the same way as the QuotaFirst score.
C27_SameRanking ==
    \A x, y \in Range(accounts), m \in ModelIds :
        (getQuotaScore(x, m) > getQuotaScore(y, m))
            <=> (QuotaFirstScore(x, m) > QuotaFirstScore(y, m))

\* the offsets from the cursor cur at which the pool holds a usable account
SilentFailoverUsable(cur, m) ==
    {k \in 0..(Len(accounts) - 1) : IsAccountUsable(At(accounts, (cur + k) % Len(accounts)), m)}

\* C29: SilentFailover selectAccount returns the first usable account in cyclic
\* pool order from the cursor (0 if the cursor is past the pool) and leaves the
\* cursor on it; with no usable account in a non-empty pool it returns null with
\* waitMs 0 and the cursor on its clamped start; onSuccess never moves the cursor.
C29_FirstUsableFromCursor ==
    [][strategy = "silent-failover" =>
          /\ (last'.op = "selectAccount" /\ Len(accounts) > 0) =>
                \E m \in ModelIds :
                    LET cur == IF currentIndex >= Len(accounts) THEN 0 ELSE currentIndex
                        usable == SilentFailoverUsable(cur, m)
                        first == (cur + MinOf(usable)) % Len(accounts)
                    IN IF usable # {}
                       THEN /\ last'.account = At(accounts, first)
                            /\ last'.index = first
                            /\ currentIndex' = first
                       ELSE /\ last'.account = Null
                            /\ last'.waitMs = 0
                            /\ currentIndex' = cur
          /\ last'.op = "onSuccess" => currentIndex' = currentIndex]_vars

\* a selection that wrapped around the end of the pool: it started on the last
\* account, not usable, and returned the first
C29_Witness ==
    /\ strategy = "silent-failover"
    /\ last.op = "selectAccount"
    /\ last.account # Null
    /\ Len(accounts) = 2
    /\ last.start = 1
    /\ last.index = 0
    /\ currentIndex = 0
    /\ ~IsAccountUsable(At(accounts, 1), "m1")

\* C30: every SilentFailover onRateLimit advances the cursor by one position
\* modulo the pool length that the last selectAccount of a non-empty pool saw
\* (#accountCount, which no other call writes), whatever the failure counts,
\* and leaves the failure counts unchanged; an onFailure that reaches the
\* threshold rotates the same way and leaves the reported account without a
\* failure count, the counts of the other accounts unchanged.
C30_RateLimitRotates ==
    [][strategy = "silent-failover" =>
          /\ accountCount' = IF last'.op = "selectAccount" /\ Len(accounts) > 0
                             THEN Len(accounts) ELSE accountCount
          /\ last'.op = "onRateLimit" =>
                /\ currentIndex' = (currentIndex + 1) % MathMax(1, accountCount)
                /\ failureCounts' = failureCounts
          /\ (/\ last'.op = "onFailure"
              /\ GetOrZero(failureCounts, last'.arg) + 1 >= maxFailuresBeforeSwitch) =>
                /\ currentIndex' = (currentIndex + 1) % MathMax(1, accountCount)
                /\ failureCounts' = MapDelete(failureCounts, last'.arg)]_vars

\* a rate limit reported after the pool has shrunk, for an account that has a
\* failure counted: the cursor moved within the length the last selection saw
C30_Witness ==
    /\ strategy = "silent-failover"
    /\ last.op = "onRateLimit"
    /\ last.arg \in DOMAIN failureCounts
    /\ accountCount = 2
    /\ Len(accounts) = 1
    /\ currentIndex = 1

\* C31: SilentFailover, whatever the interleaving of the outcome reports of the
\* requests in flight: the selectAccount that follows an onRateLimit report for
\* X does not return X as long as the pool holds another usable account.
C31_RateLimitedNotReturned ==
    [][(/\ strategy = "silent-failover"
        /\ last.op = "onRateLimit"
        /\ last'.op = "selectAccount"
        /\ \E m \in ModelIds : UsableIn(accounts, m) \ {last.arg} # {})
           => last'.account # last.arg]_vars

\* C32: for every strategy and every pool, also one whose length changed since
\* the previous call, a selectAccount result with an account has an index
\* inside the pool, the account at that index is the one returned, and waitMs
\* is 0.
C32_IndexInPool ==
    (last.op = "selectAccount" /\ last.account # Null)
        => /\ last.index \in 0..(Len(accounts) - 1)
           /\ At(accounts, last.index) = last.account
           /\ last.waitMs = 0

\* a selection from a pool of one account, made while a request is in flight
\* on an account that has left the pool since it was selected
C32_Witness ==
    /\ strategy \in CursorStrategies
    /\ last.op = "selectAccount"
    /\ last.account # Null
    /\ Len(accounts) = 1
    /\ \E x \in Emails \ Range(accounts) : pending[x] > 0

\* the offsets from position cur at which the pool holds an account that is not
\* invalid
OnDemandValid(cur) ==
    {k \in 0..(Len(accounts) - 1) : ~acct[At(accounts, (cur + k) % Len(accounts))].isInvalid}

\* C33: OnDemand selectAccount returns the first account that is not invalid, in
\* cyclic pool order from the cursor, whatever its enabled flag; it sets the
\* account's enabled to true, adds exactly one to its reference count and moves
\* the cursor to the position after it, modulo the pool length.
C33_FirstValidFromCursor ==
    [][(strategy = "on-demand" /\ last'.op = "selectAccount" /\ Len(accounts) > 0) =>
          LET cur == currentIndex % Len(accounts)
              valid == OnDemandValid(cur)
              first == (cur + MinOf(valid)) % Len(accounts)
              e == At(accounts, first)
          IN valid # {} =>
                /\ last'.account = e
                /\ last'.index = first
                /\ acct' = [acct EXCEPT ![e].enabled = TRUE]
                /\ activeAccounts' = [x \in DOMAIN activeAccounts \cup {e} |->
                                        IF x = e THEN GetOrZero(activeAccounts, e) + 1
                                        ELSE activeAccounts[x]]
                /\ currentIndex' = (first + 1) % Len(accounts)]_vars

\* a second overlapping selection of the account behind an invalid one: the
\* scan passed over the cursor position and the count went from 1 to 2
C33_Witness ==
    /\ strategy = "on-demand"
    /\ last.op = "selectAccount"
    /\ last.account # Null
    /\ last.index # last.start
    /\ acct[At(accounts, last.start)].isInvalid
    /\ GetOrZero(activeAccounts, last.account) = 2
    /\ acct[last.account].enabled = TRUE
    /\ currentIndex = (last.index + 1) % Len(accounts)

\* C34: OnDemand with overlapping requests, each selection released at most
\* once: an account with a request in flight (handed the account, outcome not
\* yet reported) has a positive reference count and enabled = true; the release
\* of one of several overlapping requests on an account does not disable it.
C34_InUseStaysEnabled ==
    (strategy = "on-demand" /\ \A x \in Emails : unmatched[x] = 0)
        => \A e \in Emails :
              pending[e] > 0 => /\ GetOrZero(activeAccounts, e) > 0
                                /\ acct[e].enabled = TRUE

\* one of two overlapping requests on an account has reported its outcome, the
\* other is still in flight, and the account is enabled
C34_Witness ==
    /\ strategy = "on-demand"
    /\ \A x \in Emails : unmatched[x] = 0
    /\ last.op \in Outcomes
    /\ last.matched
    /\ last.writes = {}
    /\ pending[last.arg] = 1
    /\ GetOrZero(activeAccounts, last.arg) = 1
    /\ acct[last.arg].enabled = TRUE

\* C35: OnDemand on a fixed pool with k >= 1 accounts that are not invalid: each
\* selectAccount returns the first such account that follows, in cyclic pool
\* order, the account the previous selectAccount returned, whatever releases
\* came in between; so any k consecutive selections return each of the k
\* accounts exactly once.
C35_RotationFairness ==
    [][(strategy = "on-demand" /\ last'.op = "selectAccount" /\ lastSel # Null) =>
          LET after == (FindIndex(accounts, lastSel) + 1) % Len(accounts)
              next == (after + MinOf(OnDemandValid(after))) % Len(accounts)
          IN /\ last'.account = At(accounts, next)
             /\ Cardinality(OnDemandValid(0)) > 1 => last'.account # lastSel]_vars

\* three accounts are not invalid; the fourth selection came back to the first
\* account after the two others had been served
C35_Witness ==
    /\ strategy = "on-demand"
    /\ last.op = "selectAccount"
    /\ last.account = "a@x"
    /\ last.start = 0
    /\ Cardinality(OnDemandValid(0)) = 3
    /\ Cardinality(served) = 3
    /\ currentIndex = 1

\* C36: OnDemand: once a request that selectAccount handed account X has been
\* abandoned (its outcome is never reported), X keeps a reference count of at
\* least 1 and enabled = true in every later state, whatever selections and
\* paired outcome calls follow.
C36_LeakedReservation ==
    strategy = "on-demand"
        => \A e \in Emails :
              unmatched[e] < 0 => /\ GetOrZero(activeAccounts, e) >= pending[e] + 1
                                  /\ acct[e].enabled = TRUE

\* after the abandonment, the account was selected again and that request was
\* reported: the count is back to 1 and the account still enabled
C36_Witness ==
    /\ strategy = "on-demand"
    /\ last.op \in Outcomes
    /\ last.matched
    /\ unmatched[last.arg] = -1
    /\ pending[last.arg] = 0
    /\ GetOrZero(activeAccounts, last.arg) = 1
    /\ acct[last.arg].enabled = TRUE

(***************************************************************************)
(* The server-config component of the settings page (model-manager.js).    *)
(* A request to /api/config is in flight from the call that sends it to    *)
(* the step in which its promise settles; requests settle in any order.    *)
(***************************************************************************)
MaxRequests == 2

strategyVars == <<strategy, accounts, acct, cooling, stratVars, pending, lastSel, streak,
                  served, unmatched>>

\* a field of saveConfigField and the values typed into it (after parseInt)
NumericFields == {"maxRetries"}

\* no timer of the field is waiting
NoTimer == [value |-> Absent, previousValue |-> Absent]

\* the catch block: this.serverConfig[field] = previousValue
Rollback(config, r) == [config EXCEPT ![r.field] = r.previousValue]

\* previousValue = this.serverConfig[field]; the optimistic update; the request
\* of the try block is sent
Toggle(op, field, enabled) ==
    /\ component.kind = "serverConfig"
    /\ Len(component.requests) < MaxRequests
    /\ component' = [component EXCEPT
                       !.serverConfig[field] = enabled,
                       !.requests = Append(@, [field |-> field, value |-> enabled,
                                               previousValue |-> component.serverConfig[field]])]
    /\ last' = [NoCall(op) EXCEPT !.arg = enabled]
    /\ UNCHANGED strategyVars

\* toggleDebug(enabled)
ToggleDebug(enabled) == Toggle("toggleDebug", "debug", enabled)

\* toggleTokenCache(enabled)
ToggleTokenCache(enabled) == Toggle("toggleTokenCache", "persistTokenCache", enabled)

\* saveConfigField(fieldName, value, displayName): the timer of the field is
\* cleared and set again; the request is sent when the timer fires
SaveConfigField(fieldName, value) ==
    /\ component.kind = "serverConfig"
    /\ component' = [component EXCEPT
                       !.serverConfig[fieldName] = value,
                       !.debounceTimers[fieldName] =
                           [value |-> value,
                            previousValue |-> component.serverConfig[fieldName]]]
    /\ last' = [NoCall("saveConfigField") EXCEPT !.arg = value]
    /\ UNCHANGED strategyVars

\* 500 ms have passed: the callback of setTimeout runs up to its first await
TimerFires(fieldName) ==
    /\ component.kind = "serverConfig"
    /\ component.debounceTimers[fieldName] # NoTimer
    /\ Len(component.requests) < MaxRequests
    /\ component' = [component EXCEPT
                       !.debounceTimers[fieldName] = NoTimer,
                       !.requests = Append(@, [field |-> fieldName] @@
                                                  component.debounceTimers[fieldName])]
    /\ last' = NoCall("timer")
    /\ UNCHANGED strategyVars

\* the request fails (network error, or a status that is not 'ok'): catch block
RequestFails(i) ==
    /\ component.kind = "serverConfig"
    /\ i \in 1..Len(component.requests)
    /\ component' = [component EXCEPT
                       !.serverConfig = Rollback(@, component.requests[i]),
                       !.requests = RemoveAt(@, i - 1)]
    /\ last' = [NoCall("requestFailed") EXCEPT !.arg = component.requests[i].field]
    /\ UNCHANGED strategyVars

\* the server stores the value and answers 'ok'; fetchServerConfig then replaces
\* this.serverConfig by the server's configuration, unless its own request fails
RequestSucceeds(i, fetched) ==
    /\ component.kind = "serverConfig"
    /\ i \in 1..Len(component.requests)
    /\ LET r == component.requests[i]
           server == [component.server EXCEPT ![r.field] = r.value]
       IN component' = [component EXCEPT
                          !.server = server,
                          !.serverConfig = IF fetched THEN server ELSE @,
                          !.requests = RemoveAt(@, i - 1),
                          !.succeeded = TRUE]
    /\ last' = [NoCall("requestSucceeded") EXCEPT !.arg = component.requests[i].field]
    /\ UNCHANGED strategyVars

\* the page after init(): this.serverConfig is what fetchServerConfig got
InitServerConfig ==
    /\ InitNoStrategy
    /\ \E debug, persistTokenCache \in BOOLEAN :
         LET config == [debug |-> debug, persistTokenCache |-> persistTokenCache,
                        maxRetries |-> 3]
         IN component = [kind |-> "serverConfig",
                         serverConfig |-> config,
                         server |-> config,
                         debounceTimers |-> [f \in NumericFields |-> NoTimer],
                         requests |-> << >>,
                         succeeded |-> FALSE]

ServerConfigNext ==
    \/ \E enabled \in BOOLEAN : ToggleDebug(enabled)
    \/ \E enabled \in BOOLEAN : ToggleTokenCache(enabled)
    \/ \E f \in NumericFields, v \in {5, 7} : SaveConfigField(f, v)
    \/ \E f \in NumericFields : TimerFires(f)
    \/ \E i \in 1..MaxRequests : RequestFails(i)
    \/ \E i \in 1..MaxRequests, fetched \in BOOLEAN : RequestSucceeds(i, fetched)

SpecServerConfig == InitServerConfig /\ [][ServerConfigNext]_vars

(***************************************************************************)
(* The dev-server runner (part_000): main, from the answer to the prompt   *)
(* to the server process.  Each action runs from one await to the next.    *)
(***************************************************************************)
\* String.prototype.trim, for the blank " "
RECURSIVE trim(_)
trim(str) ==
    IF str = << >> THEN str
    ELSE IF Head(str) = " " THEN trim(Tail(str))
    ELSE IF str[Len(str)] = " " THEN trim(SubSeq(str, 1, Len(str) - 1))
    ELSE str

\* a runServer that passes --enable-kiro whatever its argument
runServerWithKiro(servers, enableKiro) == Append(servers, TRUE)

\* runServer(enableKiro): spawn('node', args): one more server process, with or
\* without --enable-kiro
runServer(servers, enableKiro) == Append(servers, enableKiro)

\* a step of the inner try block returned
Done(step) == [component EXCEPT !.steps = Append(@, step)]

\* a step of the inner try block threw: the catch block sets the 2 s timer
Caught(step) == [component EXCEPT !.threw = step, !.pc = "timer"]

\* main: the prompt is answered; runServer(false) at once for 'n', else killKiro
\* is started
Answer(answer) ==
    /\ component.kind = "runner"
    /\ component.pc = "prompt"
    /\ LET enableKiro == toLowerCase(trim(answer)) # <<"n">>
       IN component' = [component EXCEPT
                          !.answer = answer,
                          !.enableKiro = enableKiro,
                          !.pc = IF enableKiro THEN "killKiro" ELSE "serving",
                          !.servers = IF enableKiro THEN @ ELSE runServer(@, FALSE)]
    /\ last' = [NoCall("question") EXCEPT !.arg = answer]
    /\ UNCHANGED strategyVars

\* killKiro(): the command kills Kiro or fails; its error is ignored
KillKiro(killed) ==
    /\ component.kind = "runner"
    /\ component.pc = "killKiro"
    /\ component' = [Done("killKiro") EXCEPT !.pc = "getKiroPath"]
    /\ last' = [NoCall("killKiro") EXCEPT !.result = killed]
    /\ UNCHANGED strategyVars

\* getKiroPath(): the path of the config file, or the path typed at the prompt;
\* throws when the extension file is not under it
GetKiroPath(outcome) ==
    /\ component.kind = "runner"
    /\ component.pc = "getKiroPath"
    /\ component' = IF outcome = "not found" THEN Caught("getKiroPath")
                    ELSE [Done("getKiroPath") EXCEPT !.pc = "patchExtension",
                                                     !.resourcesPath = outcome]
    /\ last' = [NoCall("getKiroPath") EXCEPT !.result = outcome,
                                             !.threw = (outcome = "not found")]
    /\ UNCHANGED strategyVars

\* patchExtension(resourcesPath): patches, finds the file patched or finds no
\* pattern; rethrows an error of the file system
PatchExtension(outcome) ==
    /\ component.kind = "runner"
    /\ component.pc = "patchExtension"
    /\ component' = IF outcome = "error" THEN Caught("patchExtension")
                    ELSE [Done("patchExtension") EXCEPT !.pc = "startKiro"]
    /\ last' = [NoCall("patchExtension") EXCEPT !.result = outcome,
                                                !.threw = (outcome = "error")]
    /\ UNCHANGED strategyVars

\* startKiro(resourcesPath), then runServer(true): Kiro is spawned, or its
\* executable is missing (a message, no throw), or spawn throws
StartKiro(outcome) ==
    /\ component.kind = "runner"
    /\ component.pc = "startKiro"
    /\ component' = IF outcome = "error" THEN Caught("startKiro")
                    ELSE [Done("startKiro") EXCEPT !.pc = "serving",
                                                   !.servers = runServer(@, TRUE)]
    /\ last' = [NoCall("startKiro") EXCEPT !.result = outcome,
                                           !.threw = (outcome = "error")]
    /\ UNCHANGED strategyVars

\* setTimeout(() => runServer(false), 2000) fires
SetupFailedTimer ==
    /\ component.kind = "runner"
    /\ component.pc = "timer"
    /\ component' = [component EXCEPT !.pc = "serving", !.servers = runServer(@, FALSE)]
    /\ last' = NoCall("timer")
    /\ UNCHANGED strategyVars

\* main() has printed its banner and asked its question
InitRunner ==
    /\ InitNoStrategy
    /\ component = [kind |-> "runner", pc |-> "prompt", answer |-> << >>,
                    enableKiro |-> FALSE, resourcesPath |-> Null, steps |-> << >>,
                    threw |-> Null, servers |-> << >>]

RunnerNext ==
    \* what the user types at 'Enable Kiro Support? [Y/n]: '
    \/ \E answer \in
          { << >>, <<" ">>, <<"n">>, <<"N">>, <<" ", "n">>, <<"N", " ">>, <<"y">>, <<"Y">>,
            <<"n", "o">>, <<"y", "e", "s">> } :
          Answer(answer)
    \/ \E killed \in BOOLEAN : KillKiro(killed)
    \/ \E outcome \in {"config", "typed", "not found"} : GetKiroPath(outcome)
    \/ \E outcome \in {"patched", "already patched", "no pattern", "error"} :
          PatchExtension(outcome)
    \/ \E outcome \in {"spawned", "no executable", "error"} : StartKiro(outcome)
    \/ SetupFailedTimer

SpecRunner == InitRunner /\ [][RunnerNext]_vars

\* C37: toggleDebug, toggleTokenCache, saveConfigField: once every request of a
\* sequence of calls has failed (none succeeded, none in flight, no timer
\* waiting), each field of the local serverConfig has the value it had before
\* the calls, the last one the server confirmed.
C37_RollbackToConfirmed ==
    (/\ component.kind = "serverConfig"
     /\ ~component.succeeded
     /\ component.requests = << >>
     /\ \A f \in NumericFields : component.debounceTimers[f] = NoTimer)
        => component.serverConfig = component.server

\* C38: the runner, once the prompt is answered, starts the server process
\* exactly once; with Kiro support only if the answer was not 'n' and killKiro,
\* getKiroPath, patchExtension and startKiro returned, in that order, without
\* throwing; when one of them throws, the server is started without Kiro
\* support.
C38_ServerStartedOnce ==
    component.kind = "runner"
        => /\ Len(component.servers) <= 1
           /\ component.pc = "serving" =>
                 /\ Len(component.servers) = 1
                 /\ component.servers[1] =
                       (/\ toLowerCase(trim(component.answer)) # <<"n">>
                        /\ component.threw = Null
                        /\ component.steps = <<"killKiro", "getKiroPath",
                                               "patchExtension", "startKiro">>)
                 /\ component.threw # Null => component.servers = <<FALSE>>

\* patchExtension threw after the answer "no" (which is not 'n'); the timer
\* started the server without Kiro support
C38_Witness ==
    /\ component.kind = "runner"
    /\ component.pc = "serving"
    /\ component.answer = <<"n", "o">>
    /\ component.threw = "patchExtension"
    /\ component.steps = <<"killKiro", "getKiroPath">>
    /\ component.servers = <<FALSE>>

(***************************************************************************)
(* thinking-utils.js: the content blocks of an assistant message.  A block *)
(* is a record holding the fields the object has; strings that the code    *)
(* measures (text, signature) are sequences of characters.                 *)
(***************************************************************************)
MaxContent == 3

\* the blocks the content arrays are built from
Blocks ==
    << [type |-> "thinking", thinking |-> "t1"],
       [type |-> "thinking", thinking |-> "t2", signature |-> <<"s">>],
       [type |-> "thinking", thinking |-> "t3", signature |-> <<"s", "s">>,
        cache_control |-> "ephemeral"],
       [type |-> "redacted_thinking", data |-> "d1"],
       [thought |-> TRUE, text |-> <<"a">>],
       [thought |-> TRUE, text |-> <<"b">>, thoughtSignature |-> <<"s", "s">>],
       [type |-> "text", text |-> <<"a">>],
       [type |-> "text", text |-> << >>],
       [type |-> "text", text |-> <<" ">>],
       [type |-> "tool_use", id |-> "u1"] >>

\* part.field, where a field the object lacks reads as undefined
Field(part, field) == IF field \in DOMAIN part THEN part[field] ELSE Null

isThinkingPart(part) ==
    \/ Field(part, "type") = "thinking"
    \/ Field(part, "type") = "redacted_thinking"
    \/ "thinking" \in DOMAIN part
    \/ ("thought" \in DOMAIN part /\ part.thought = TRUE)

hasValidSignature(part) ==
    LET name == IF "thought" \in DOMAIN part /\ part.thought = TRUE
                THEN "thoughtSignature" ELSE "signature"
    IN  name \in DOMAIN part /\ Len(part[name]) >= component.MIN_SIGNATURE_LENGTH

sanitizeAnthropicThinkingBlock(block) ==
    IF Field(block, "type") = "thinking"
    THEN [f \in DOMAIN block \cap {"type", "thinking", "signature"} |-> block[f]]
    ELSE IF Field(block, "type") = "redacted_thinking"
    THEN [f \in DOMAIN block \cap {"type", "data"} |-> block[f]]
    ELSE block

\* the backwards loop of removeTrailingThinkingBlocks that stops after the
\* first block it removes
EndIndexOfOne(content, i) ==
    IF i >= 1 /\ isThinkingPart(content[i]) /\ ~hasValidSignature(content[i])
    THEN i - 1 ELSE i

\* the backwards loop of removeTrailingThinkingBlocks from block i: the number
\* of blocks that stay
RECURSIVE EndIndex(_, _)
EndIndex(content, i) ==
    IF i = 0 THEN 0
    ELSE IF isThinkingPart(content[i]) /\ ~hasValidSignature(content[i])
    THEN EndIndex(content, i - 1)
    ELSE i

removeTrailingThinkingBlocks(content) ==
    LET endIndex == EndIndex(content, Len(content))
    IN  IF endIndex < Len(content) THEN SubSeq(content, 1, endIndex) ELSE content

IsThinkingBlock(block) == Field(block, "type") \in {"thinking", "redacted_thinking"}
IsToolUse(block) == Field(block, "type") = "tool_use"
IsText(block) == Field(block, "type") = "text"
\* block.text && block.text.trim().length > 0
HasText(block) == "text" \in DOMAIN block /\ Len(trim(block.text)) > 0
reorderAssistantContent(content) ==
    IF Len(content) = 1
    THEN IF IsThinkingBlock(content[1])
         THEN <<sanitizeAnthropicThinkingBlock(content[1])>>
         ELSE content
    ELSE LET thinkingBlocks == SelectSeq(content, IsThinkingBlock)
             InTextPosition(block) ==
                 /\ ~IsThinkingBlock(block)
                 /\ ~IsToolUse(block)
                 /\ IsText(block) => HasText(block)
             textBlocks == SelectSeq(content, InTextPosition)
             toolUseBlocks == SelectSeq(content, IsToolUse)
         IN  [i \in 1..Len(thinkingBlocks) |->
                 sanitizeAnthropicThinkingBlock(thinkingBlocks[i])]
             \o textBlocks \o toolUseBlocks

\* the message handed to the functions is component.content
RemoveTrailingThinkingBlocks ==
    /\ last' = [NoCall("removeTrailingThinkingBlocks") EXCEPT
                   !.arg = component.content,
                   !.result = removeTrailingThinkingBlocks(component.content)]
    /\ UNCHANGED <<strategyVars, component>>

ReorderAssistantContent ==
    /\ last' = [NoCall("reorderAssistantContent") EXCEPT
                   !.arg = component.content,
                   !.result = reorderAssistantContent(component.content)]
    /\ UNCHANGED <<strategyVars, component>>

InitThinkingUtils ==
    /\ InitNoStrategy
    /\ \E min \in {1, 2}, n \in 0..MaxContent :
       \E pick \in [1..n -> 1..Len(Blocks)] :
          component = [kind |-> "thinkingUtils", MIN_SIGNATURE_LENGTH |-> min,
                       content |-> [i \in 1..n |-> Blocks[pick[i]]]]

ThinkingUtilsNext == RemoveTrailingThinkingBlocks \/ ReorderAssistantContent

SpecThinkingUtils == InitThinkingUtils /\ [][ThinkingUtilsNext]_vars

IsUnsignedThinking(block) == isThinkingPart(block) /\ ~hasValidSignature(block)

\* C39: removeTrailingThinkingBlocks returns a prefix of its input whose last
\* block, if there is one, is not a thinking block without a valid signature;
\* every block it removes is an unsigned thinking block (so the removed part is
\* exactly the maximal trailing run of them), and applying it to its own
\* result changes nothing.
C39_RemovesTrailingRun ==
    last.op = "removeTrailingThinkingBlocks"
        => LET content == last.arg
               result == last.result
           IN  /\ Len(result) <= Len(content)
               /\ result = SubSeq(content, 1, Len(result))
               /\ Len(result) > 0 => ~IsUnsignedThinking(result[Len(result)])
               /\ \A i \in Len(result) + 1..Len(content) :
                      IsUnsignedThinking(content[i])
               /\ removeTrailingThinkingBlocks(result) = result

\* two unsigned thinking blocks (one in each format) were removed from behind
\* a signed thinking block, which stays
C39_Witness ==
    /\ last.op = "removeTrailingThinkingBlocks"
    /\ component.MIN_SIGNATURE_LENGTH = 2
    /\ last.arg = <<Blocks[3], Blocks[2], Blocks[5]>>
    /\ last.result = <<Blocks[3]>>

\* C40: whatever the length of its input, reorderAssistantContent returns an
\* array with no text block whose text is empty or only blanks, with the
\* thinking and redacted_thinking blocks first and the tool_use blocks last,
\* each group in the order of the input.
C40_Reordered ==
    last.op = "reorderAssistantContent"
        => LET content == last.arg
               result == last.result
               Other(block) == ~IsThinkingBlock(block) /\ ~IsToolUse(block)
               Kept(block) == Other(block) /\ (IsText(block) => HasText(block))
               thinkingBlocks == SelectSeq(content, IsThinkingBlock)
           IN  /\ \A i \in 1..Len(result) : IsText(result[i]) => HasText(result[i])
               /\ \A i, j \in 1..Len(result) :
                      /\ IsThinkingBlock(result[j]) /\ ~IsThinkingBlock(result[i]) => j < i
                      /\ IsToolUse(result[i]) /\ ~IsToolUse(result[j]) => j < i
               /\ SelectSeq(result, IsThinkingBlock) =
                     [i \in 1..Len(thinkingBlocks) |->
                         sanitizeAnthropicThinkingBlock(thinkingBlocks[i])]
               /\ SelectSeq(result, Other) = SelectSeq(content, Kept)
               /\ SelectSeq(result, IsToolUse) = SelectSeq(content, IsToolUse)

====
